---- MODULE Spec2Model ----
(***************************************************************************)
(* Model of the Gwen sales agent (src/app.js): the catalog search, the     *)
(* stock resolver, the Shopify price/stock cache, the card renderer, the   *)
(* whitelist validator and the /chat turn handler with its commercial      *)
(* state.                                                                  *)
(***************************************************************************)
EXTENDS Integers, Sequences, FiniteSets, TLC

VARIABLES
    productKnowledgeCenter, \* product_knowledge_center.json: the products as loaded
    productIndex,       \* productIndex.bySku, in insertion order (Object.values)
    inventoryData,      \* Inventory_Data.json: sku -> record of the first row for it
    probe,              \* last call of a catalog function and what it returned
    SHOPIFY_CACHE,      \* sku -> cache entry {data, timestamp}, or no entry
    SHOPIFY_ACCESS_TOKEN, \* whether the access token is configured
    now,                \* Date.now(), in minutes
    calls,              \* the calls of getCachedShopifyData awaiting their fetch
    lastReturn,         \* the last return of getCachedShopifyData
    sessions,           \* the sessions map: session id -> session, or none
    reqs,               \* the /chat requests in flight, by request slot
    running,            \* the request whose code is executing between two awaits
    lastResponse,       \* the last response sent (res.json / res.status().json)
    lastRenderCall,     \* the last call of renderProductCard by a chat turn
    lastSearch,         \* session id -> SKUs the session's last product search returned
    sessionsV13         \* the sessions map of the Version 13 handler

catalogVars == <<productKnowledgeCenter, productIndex, inventoryData>>
cacheVars == <<SHOPIFY_CACHE, SHOPIFY_ACCESS_TOKEN, now, calls, lastReturn>>
chatVars == <<sessions, reqs, running, lastResponse, lastRenderCall, lastSearch, sessionsV13>>
vars == <<productKnowledgeCenter, productIndex, inventoryData, probe,
          SHOPIFY_CACHE, SHOPIFY_ACCESS_TOKEN, now, calls, lastReturn,
          sessions, reqs, running, lastResponse, lastRenderCall, lastSearch, sessionsV13>>

(***************************************************************************)
(* Values                                                                  *)
(***************************************************************************)

\* SKUs of the catalog; GHOST is a SKU no product has (a hallucinated one).
CatalogSkus == {"FARO", "DINE", "COVER"}
SkuOrder == <<"FARO", "DINE", "COVER">>
AllSkus == CatalogSkus \cup {"GHOST"}

\* The furniture types searchProducts knows; any other value is not filtered.
KnownTypes == {"dining", "lounge", "corner", "lounger"}

Max(a, b) == IF a >= b THEN a ELSE b

\* An optional number: has = FALSE models undefined/null.
NoNumber == [has |-> FALSE, n |-> 0]
SomeNumber(n) == [has |-> TRUE, n |-> n]

Range(s) == {s[i] : i \in 1..Len(s)}

RECURSIVE Flatten(_)
Flatten(ss) == IF ss = <<>> THEN <<>> ELSE Head(ss) \o Flatten(Tail(ss))

Prefix(s, n) == SubSeq(s, 1, IF n < Len(s) THEN n ELSE Len(s))

(***************************************************************************)
(* Stock resolver                                                          *)
(***************************************************************************)

\* The number getProductStock returns when no source has a record.
DefaultStock == 100

HasProduct(sku) == \E i \in 1..Len(productIndex) : productIndex[i].sku = sku
ProductOf(sku) == productIndex[CHOOSE i \in 1..Len(productIndex) : productIndex[i].sku = sku]

\* A plausible slip: the two sources combined with min instead of max.
getProductStock_min(sku) ==
    LET invRecord == inventoryData[sku]
        stockFromInventory == IF invRecord.has THEN invRecord.n ELSE 0
        pkc == IF HasProduct(sku) THEN ProductOf(sku).inventory ELSE NoNumber
        stockFromPKC == IF pkc.has /\ pkc.n # 0 THEN pkc.n ELSE 0
        finalStock == IF stockFromInventory <= stockFromPKC
                      THEN stockFromInventory ELSE stockFromPKC
    IN  IF stockFromInventory = 0 /\ stockFromPKC = 0 /\ ~invRecord.has /\ ~pkc.has
        THEN DefaultStock
        ELSE finalStock

\* getProductStock: the larger of the two sources, 100 when neither has a record.
\* pkc.has is "the product has a logistics_and_inventory.inventory object";
\* pkc.n = 0 is a falsy (missing or zero) available in it.
getProductStock(sku) ==
    LET invRecord == inventoryData[sku]
        stockFromInventory == IF invRecord.has THEN invRecord.n ELSE 0
        pkc == IF HasProduct(sku) THEN ProductOf(sku).inventory ELSE NoNumber
        stockFromPKC == IF pkc.has /\ pkc.n # 0 THEN pkc.n ELSE 0
        finalStock == Max(stockFromInventory, stockFromPKC)
    IN  IF stockFromInventory = 0 /\ stockFromPKC = 0 /\ ~invRecord.has /\ ~pkc.has
        THEN DefaultStock
        ELSE finalStock

isInStock(sku) == getProductStock(sku) > 0

(***************************************************************************)
(* Search                                                                  *)
(***************************************************************************)

\* Largest seat count a catalog product has in the model.
MaxSeats == 4

\* maxResults when the criteria give none.
DefaultMaxResults == 5

\* Stable sort of a sequence of products by seats (Array.prototype.sort with a
\* seats comparator; parseInt(seats) || 0 is p.seats here).
SortBySeatsAsc(s) ==
    Flatten([k \in 1..(MaxSeats + 2) |-> SelectSeq(s, LAMBDA p : p.seats = k - 1)])
SortBySeatsDesc(s) ==
    Flatten([k \in 1..(MaxSeats + 2) |-> SelectSeq(s, LAMBDA p : p.seats = MaxSeats + 2 - k)])

\* Stage 1: sku and primary_category present.
BaseCandidates == SelectSeq(productIndex, LAMBDA p : p.hasCategory)

\* Stage 2: furniture type, by the substring tests of each type tag
\* (p.types = the tags whose test succeeds on taxonomy, category or name).
TypeFilter(s, furnitureType) ==
    IF furnitureType = "" THEN s
    ELSE SelectSeq(s, LAMBDA p :
            IF furnitureType \in KnownTypes THEN furnitureType \in p.types ELSE TRUE)

\* Stage 3 made lenient: a material no candidate has filters nothing.
MaterialFilter_lenient(s, material) ==
    IF material = "" \/ ~\E i \in 1..Len(s) : material \in s[i].materials THEN s
    ELSE SelectSeq(s, LAMBDA p : material \in p.materials)

\* Stage 3: material (p.materials = the materials that are a substring of the
\* product's material_type or name).
MaterialFilter(s, material) ==
    IF material = "" THEN s
    ELSE SelectSeq(s, LAMBDA p : material \in p.materials)

\* Stage 4 without the fallback: strict rejection.
SeatFilter_strict(s, seatCount) ==
    IF seatCount = 0 THEN s
    ELSE SortBySeatsAsc(SelectSeq(s, LAMBDA p : p.seats # 0 /\ p.seats >= seatCount))

\* Stage 4 without the sort: the products reaching the target in index order.
SeatFilter_unsorted(s, seatCount) ==
    IF seatCount = 0 THEN s
    ELSE SelectSeq(s, LAMBDA p : p.seats # 0 /\ p.seats >= seatCount)

\* Stage 4: seat count. Products reaching the target, closest first; when none
\* does, the products within one seat of the largest seat count.
SeatFilter(s, seatCount) ==
    IF seatCount = 0 THEN s
    ELSE LET matchingProducts == SelectSeq(s, LAMBDA p : p.seats # 0 /\ p.seats >= seatCount)
             productsWithSeats == SortBySeatsDesc(SelectSeq(s, LAMBDA p : p.seats # 0 /\ p.seats > 0))
         IN  IF Len(matchingProducts) > 0 THEN SortBySeatsAsc(matchingProducts)
             ELSE IF Len(productsWithSeats) > 0
                  THEN LET maxSeats == productsWithSeats[1].seats
                       IN  SelectSeq(productsWithSeats, LAMBDA p : p.seats >= maxSeats - 1)
                  ELSE <<>>

\* Stage 5: product name (p.names = the queries that are a substring of the
\* product's name or sku).
NameFilter(s, productName) ==
    IF productName = "" THEN s
    ELSE SelectSeq(s, LAMBDA p : productName \in p.names)

\* Stage 6 left out: out-of-stock products pass.
StockFilter_none(s) == s

\* Stage 6: out-of-stock products removed.
StockFilter(s) == SelectSeq(s, LAMBDA p : ~(getProductStock(p.sku) <= 0))

\* The candidates before the stock filter.
BeforeStock(criteria) ==
    NameFilter(
        SeatFilter(
            MaterialFilter(TypeFilter(BaseCandidates, criteria.furnitureType), criteria.material),
            criteria.seatCount),
        criteria.productName)

\* The projection searchProducts returns for a product.
Projection(p) == [sku |-> p.sku, seats |-> p.seats]

\* searchProducts(criteria): the projections of the first maxResults in-stock
\* candidates.
searchProducts(criteria) ==
    LET inStockProducts == StockFilter(BeforeStock(criteria))
        results == Prefix(inStockProducts, criteria.maxResults)
    IN  [i \in 1..Len(results) |-> Projection(results[i])]

SkusOf(products) == [i \in 1..Len(products) |-> products[i].sku]

(***************************************************************************)
(* Card renderer                                                           *)
(***************************************************************************)

\* What getCachedShopifyData resolved to: null, or {price, stock, ...}.
NoShopifyData == [isNull |-> TRUE, price |-> 0, stock |-> 0]
ShopifyData(price, stock) == [isNull |-> FALSE, price |-> price, stock |-> stock]

(***************************************************************************)
(* Shopify cache                                                           *)
(***************************************************************************)

\* CACHE_TTL_MS = 5 * 60 * 1000, in minutes (the unit of now).
CACHE_TTL_MS == 5

\* The clock stops here.
MaxTime == 7

\* The callers that can be inside getCachedShopifyData at once.
Callers == {"k1", "k2"}

CacheSkus == {"FARO", "DINE"}

NoEntry == [has |-> FALSE, data |-> NoShopifyData, handle |-> "", timestamp |-> 0]

\* The freshness test with the boundary included (age = TTL still served).
IsFresh_inclusive(cached, t) == cached.has /\ (t - cached.timestamp) <= CACHE_TTL_MS

\* cached && (Date.now() - cached.timestamp) < CACHE_TTL_MS
IsFresh(cached, t) == cached.has /\ (t - cached.timestamp) < CACHE_TTL_MS

\* What the external lookup can end in: a non-2xx status, a thrown error, a
\* response without a product, or a product.
FetchFailures == {"not_ok", "threw", "no_product"}
FetchOutcomes ==
    [kind : FetchFailures, data : {NoShopifyData}]
        \cup [kind : {"product"}, data : {ShopifyData(0, 0), ShopifyData(8, 6)}]

\* A cache that never stores what a lookup returned.
CacheAfterFetch_forget(cache, sku, outcome, t) == cache

\* Negative caching: a failed lookup stored as well.
CacheAfterFetch_negative(cache, sku, outcome, t) ==
    [cache EXCEPT ![sku] = [has |-> TRUE, data |-> outcome.data, handle |-> sku, timestamp |-> t]]

\* SHOPIFY_CACHE after a lookup ended: set only for a product.
CacheAfterFetch(cache, sku, outcome, t) ==
    IF outcome.kind = "product"
    THEN [cache EXCEPT ![sku] = [has |-> TRUE, data |-> outcome.data, handle |-> sku, timestamp |-> t]]
    ELSE cache

IdleCall == [pc |-> "idle", sku |-> "GHOST", hadEntry |-> FALSE, age |-> 0]

NoReturn == [caller |-> "", sku |-> "GHOST", data |-> NoShopifyData, handle |-> "",
             fromCache |-> FALSE, hadEntry |-> FALSE, age |-> 0, lookedUp |-> FALSE,
             outcome |-> "none"]

\* getCachedShopifyData(sku) up to its first await: a fresh entry is returned,
\* without a token null is returned, else the fetch is started.
CacheCall(k, sku) ==
    /\ calls[k].pc = "idle"
    /\ LET cached == SHOPIFY_CACHE[sku]
           age == IF cached.has THEN now - cached.timestamp ELSE 0
       IN  IF IsFresh(cached, now)
           THEN /\ lastReturn' = [caller |-> k, sku |-> sku, data |-> cached.data,
                                  handle |-> cached.handle, fromCache |-> TRUE,
                                  hadEntry |-> TRUE, age |-> age, lookedUp |-> FALSE,
                                  outcome |-> "hit"]
                /\ UNCHANGED calls
           ELSE IF ~SHOPIFY_ACCESS_TOKEN
           THEN /\ lastReturn' = [caller |-> k, sku |-> sku, data |-> NoShopifyData,
                                  handle |-> "", fromCache |-> FALSE,
                                  hadEntry |-> cached.has, age |-> age, lookedUp |-> FALSE,
                                  outcome |-> "no_token"]
                /\ UNCHANGED calls
           ELSE /\ calls' = [calls EXCEPT ![k] = [pc |-> "fetching", sku |-> sku,
                                                  hadEntry |-> cached.has, age |-> age]]
                /\ UNCHANGED lastReturn
    /\ UNCHANGED <<SHOPIFY_CACHE, SHOPIFY_ACCESS_TOKEN, now, catalogVars, probe, chatVars>>

\* The fetch of a call ends: a product is stored with the time of its arrival
\* and returned; any failure returns null.
FetchDone(k, outcome) ==
    /\ calls[k].pc = "fetching"
    /\ SHOPIFY_CACHE' = CacheAfterFetch(SHOPIFY_CACHE, calls[k].sku, outcome, now)
    /\ lastReturn' = [caller |-> k, sku |-> calls[k].sku, data |-> outcome.data,
                      handle |-> IF outcome.kind = "product" THEN calls[k].sku ELSE "",
                      fromCache |-> FALSE, hadEntry |-> calls[k].hadEntry,
                      age |-> calls[k].age, lookedUp |-> TRUE, outcome |-> outcome.kind]
    /\ calls' = [calls EXCEPT ![k] = IdleCall]
    /\ UNCHANGED <<SHOPIFY_ACCESS_TOKEN, now, catalogVars, probe, chatVars>>

\* A minute passes.
Tick ==
    /\ now < MaxTime
    /\ now' = now + 1
    /\ UNCHANGED <<SHOPIFY_CACHE, SHOPIFY_ACCESS_TOKEN, calls, lastReturn, catalogVars, probe, chatVars>>

CacheIdle ==
    /\ SHOPIFY_CACHE = [s \in CacheSkus |-> NoEntry]
    /\ now = 0
    /\ calls = [k \in Callers |-> IdleCall]
    /\ lastReturn = NoReturn

\* renderProductCard returning null.
NullCard == [isNull |-> TRUE]

\* A render that takes a failed lookup for no stock.
RenderStock_strict(sku, shopifyData) ==
    IF shopifyData.isNull THEN 0 ELSE shopifyData.stock

\* shopifyData?.stock ?? getProductStock(sku)
RenderStock(sku, shopifyData) ==
    IF shopifyData.isNull THEN getProductStock(sku) ELSE shopifyData.stock

\* shopifyData?.price || parseFloat(price_gbp) || 0
RenderPrice(sku, shopifyData) ==
    IF ~shopifyData.isNull /\ shopifyData.price # 0 THEN shopifyData.price
    ELSE ProductOf(sku).price

StockMessage(stock) ==
    IF stock <= 5 THEN "only_n_left" ELSE IF stock <= 20 THEN "low_stock" ELSE "in_stock"

\* renderProductCard(sku, options) once getCachedShopifyData has resolved to
\* shopifyData: null for an unknown SKU and for stock <= 0, else the card.
renderProductCard(sku, options, shopifyData) ==
    IF ~HasProduct(sku) THEN NullCard
    ELSE LET stock == RenderStock(sku, shopifyData)
         IN  IF stock <= 0 THEN NullCard
             ELSE [isNull |-> FALSE, sku |-> sku,
                   price |-> RenderPrice(sku, shopifyData),
                   stock |-> stock,
                   stockMessage |-> StockMessage(stock),
                   personalisation |-> options.personalisation,
                   bundleHint |-> options.showBundleHint /\ ProductOf(sku).hasCover]

(***************************************************************************)
(* Sessions (Version 14 handler, src/app.js lines 1302-1846)               *)
(***************************************************************************)

SessionIds == {"s1", "s2"}
\* The request slots: the requests that can be in flight at once.
ReqIds == {1, 2}
NoReq == 0

\* Turns a session takes in the model (messageCount stops here).
MaxTurns == 5

\* Turns a session takes when two requests can be in flight at once.
RaceTurns == 3

\* No session takes more turns than this in any specification.
TurnCap == 8

\* COMMERCE_RULES.bundle.maxOffersPerSession
maxOffersPerSession == 3

\* The session object created on the first message of a session id.
NewSession ==
    [has |-> TRUE,
     messageCount |-> 0,
     conversationHistory |-> <<>>,
     currentWhitelist |-> <<>>,
     context |-> [furnitureType |-> "", seatCount |-> NoNumber, material |-> ""],
     commercial |-> [bundlesOffered |-> 0, bundleDeclined |-> FALSE,
                     upsellsOffered |-> 0, upsellDeclined |-> FALSE,
                     bundleInterestShown |-> FALSE, positiveSignalReceived |-> FALSE,
                     strongPositiveReceived |-> FALSE, sentiment |-> "neutral",
                     productsShown |-> <<>>, crossSellsShown |-> <<>>,
                     lastOfferType |-> ""]]

\* No entry in the sessions map.
NoSession == [NewSession EXCEPT !.has = FALSE]

(***************************************************************************)
(* Customer messages and their keyword classes                             *)
(***************************************************************************)

\* The keyword lists of detectCustomerSentiment and of the context extraction
\* a message hits, for the messages of the model.
Words(message) ==
    CASE message = "hello" -> {}
      [] message = "i love it" -> {"positive"}
      [] message = "no thanks" -> {"decline"}
      [] message = "how do i order" -> {"readyToBuy"}
      [] message = "no thanks, how do i order" -> {"decline", "readyToBuy"}
      [] message = "too expensive" -> {"priceConcern"}
      [] message = "is there a bundle" -> {"bundleInterest"}
      [] message = "that's the one" -> {"strongPositive"}
      [] message = "rattan lounge for 4 people" -> {"rattan", "lounge", "seats"}
      [] message = "teak dining" -> {"teak", "dining"}
      [] message = "for 0 people" -> {"seats"}
      [] message = "aluminium corner" -> {"aluminium", "corner"}
      [] OTHER -> {}

\* The number the seat regex captures in a message that has one.
SeatsIn(message) == IF message = "rattan lounge for 4 people" THEN 4 ELSE 0


\* A classifier that never reports a customer as ready to buy.
detectCustomerSentiment_deaf(message) ==
    LET w == Words(message)
        isStrongPositive == "strongPositive" \in w
    IN  [priceConcerned |-> "priceConcern" \in w,
         positive |-> "positive" \in w \/ isStrongPositive,
         strongPositive |-> isStrongPositive,
         decline |-> "decline" \in w,
         bundleInterest |-> "bundleInterest" \in w,
         readyToBuy |-> FALSE,
         confirmation |-> "confirmation" \in w,
         askingAboutBuying |-> "buyProcess" \in w,
         purchaseIntentLevel |-> IF isStrongPositive \/ "confirmation" \in w THEN 2
                                 ELSE IF "buyProcess" \in w THEN 1 ELSE 0]

\* detectCustomerSentiment(message)
detectCustomerSentiment(message) ==
    LET w == Words(message)
        isStrongPositive == "strongPositive" \in w
        isReadyToBuy == "readyToBuy" \in w
        isConfirmation == "confirmation" \in w
        isAskingAboutBuying == "buyProcess" \in w
    IN  [priceConcerned |-> "priceConcern" \in w,
         positive |-> "positive" \in w \/ isStrongPositive,
         strongPositive |-> isStrongPositive,
         decline |-> "decline" \in w,
         bundleInterest |-> "bundleInterest" \in w,
         readyToBuy |-> isReadyToBuy,
         confirmation |-> isConfirmation,
         askingAboutBuying |-> isAskingAboutBuying,
         purchaseIntentLevel |->
            IF isReadyToBuy THEN 3
            ELSE IF isStrongPositive \/ isConfirmation THEN 2
            ELSE IF isAskingAboutBuying THEN 1 ELSE 0]

\* A context extraction that starts every turn from an empty context.
ExtractContext_reset(ctx, message) ==
    LET w == Words(message)
    IN  [furnitureType |-> IF "corner" \in w THEN "corner"
                           ELSE IF "lounge" \in w THEN "lounge"
                           ELSE IF "dining" \in w THEN "dining" ELSE "",
         seatCount |-> IF "seats" \in w THEN SomeNumber(SeatsIn(message)) ELSE NoNumber,
         material |-> IF "teak" \in w THEN "teak"
                      ELSE IF "rattan" \in w THEN "rattan"
                      ELSE IF "aluminium" \in w THEN "aluminium" ELSE ""]

\* The context extraction from the message: later tests overwrite earlier ones.
ExtractContext(ctx, message) ==
    LET w == Words(message)
        material == IF "teak" \in w THEN "teak"
                    ELSE IF "rattan" \in w THEN "rattan"
                    ELSE IF "aluminium" \in w THEN "aluminium" ELSE ctx.material
        furnitureType == IF "corner" \in w THEN "corner"
                         ELSE IF "lounge" \in w THEN "lounge"
                         ELSE IF "dining" \in w THEN "dining" ELSE ctx.furnitureType
        seatCount == IF "seats" \in w THEN SomeNumber(SeatsIn(message)) ELSE ctx.seatCount
    IN  [furnitureType |-> furnitureType, seatCount |-> seatCount, material |-> material]

\* A decline that always counts against the bundle.
ApplyDecline_any(commercial, sentiment) ==
    IF sentiment.decline THEN [commercial EXCEPT !.bundleDeclined = TRUE] ELSE commercial

\* A decline sets the declined flag of the last offer type.
ApplyDecline(commercial, sentiment) ==
    IF sentiment.decline
    THEN IF commercial.lastOfferType = "bundle"
         THEN [commercial EXCEPT !.bundleDeclined = TRUE]
         ELSE IF commercial.lastOfferType = "upsell"
              THEN [commercial EXCEPT !.upsellDeclined = TRUE]
              ELSE commercial
    ELSE commercial

\* A sentiment update that stores the latest signal instead of latching it.
ApplySentiment_latest(commercial, sentiment) ==
    LET c1 == IF sentiment.priceConcerned
              THEN [commercial EXCEPT !.sentiment = "price_concerned"]
              ELSE IF sentiment.positive
                   THEN [commercial EXCEPT !.sentiment = "positive"]
                   ELSE commercial
        c2 == [c1 EXCEPT !.positiveSignalReceived = sentiment.positive,
                         !.strongPositiveReceived = sentiment.strongPositive,
                         !.bundleInterestShown = sentiment.bundleInterest]
    IN  ApplyDecline(c2, sentiment)

\* The sentiment update of the handler.
ApplySentiment(commercial, sentiment) ==
    LET c1 == IF sentiment.priceConcerned
              THEN [commercial EXCEPT !.sentiment = "price_concerned"]
              ELSE IF sentiment.positive
                   THEN [commercial EXCEPT !.sentiment = "positive",
                                           !.positiveSignalReceived = TRUE]
                   ELSE commercial
        c2 == IF sentiment.strongPositive
              THEN [c1 EXCEPT !.strongPositiveReceived = TRUE] ELSE c1
        c3 == IF sentiment.bundleInterest
              THEN [c2 EXCEPT !.bundleInterestShown = TRUE] ELSE c2
    IN  ApplyDecline(c3, sentiment)

(***************************************************************************)
(* Commerce governance                                                     *)
(***************************************************************************)

\* The products bundle_items.json lists in a bundle.
BundleSkus == {"FARO"}

\* getBundleForProduct(sku).length > 0
HasBundle(sku) == sku \in BundleSkus

\* An eligibility check without Rule 1, the maximum of offers per session.
checkBundleEligibility_nomax(session) ==
    LET commercial == session.commercial
    IN  IF commercial.bundleDeclined
        THEN [eligible |-> FALSE, reason |-> "customer_declined", offerType |-> ""]
        ELSE IF Len(commercial.productsShown) = 0
        THEN [eligible |-> FALSE, reason |-> "no_products_shown", offerType |-> ""]
        ELSE [eligible |-> TRUE, reason |-> "",
              offerType |-> IF commercial.bundleInterestShown THEN "detailed" ELSE "soft"]

\* An eligibility check without the rule that a product was shown first.
checkBundleEligibility_first(session) ==
    LET commercial == session.commercial
    IN  IF commercial.bundlesOffered >= maxOffersPerSession
        THEN [eligible |-> FALSE, reason |-> "max_offers_reached", offerType |-> ""]
        ELSE IF commercial.bundleDeclined
        THEN [eligible |-> FALSE, reason |-> "customer_declined", offerType |-> ""]
        ELSE [eligible |-> TRUE, reason |-> "",
              offerType |-> IF commercial.bundleInterestShown THEN "detailed" ELSE "soft"]

\* checkBundleEligibility(session)
checkBundleEligibility(session) ==
    LET commercial == session.commercial
    IN  IF commercial.bundlesOffered >= maxOffersPerSession
        THEN [eligible |-> FALSE, reason |-> "max_offers_reached", offerType |-> ""]
        ELSE IF commercial.bundleDeclined
        THEN [eligible |-> FALSE, reason |-> "customer_declined", offerType |-> ""]
        ELSE IF Len(commercial.productsShown) = 0
        THEN [eligible |-> FALSE, reason |-> "no_products_shown", offerType |-> ""]
        ELSE [eligible |-> TRUE, reason |-> "",
              offerType |-> IF commercial.bundleInterestShown THEN "detailed" ELSE "soft"]

\* getCrossSellSuggestions(sku, session): the SKUs suggested, by priority.
getCrossSellSuggestions(sku, session) ==
    IF ~HasProduct(sku) THEN <<>>
    ELSE LET product == ProductOf(sku)
             cover == IF product.hasCover
                         /\ "COVER" \notin Range(session.commercial.crossSellsShown)
                         /\ isInStock("COVER")
                      THEN <<"COVER">> ELSE <<>>
             assembly == IF product.assemblyRequired THEN <<"ASSEMBLY-SERVICE">> ELSE <<>>
         IN  cover \o assembly

\* productsShown.slice(-3)[0]
ClosingProduct(productsShown) ==
    IF Len(productsShown) = 0 THEN ""
    ELSE IF Len(productsShown) >= 3 THEN productsShown[Len(productsShown) - 2]
    ELSE productsShown[1]

\* buildClosingResponse(session, sentiment): the type of closing response and
\* the product it names.
buildClosingResponse(session) ==
    LET mainProductSku == ClosingProduct(session.commercial.productsShown)
    IN  IF mainProductSku = "" \/ ~HasProduct(mainProductSku)
        THEN [type |-> "soft_close", mainProduct |-> ""]
        ELSE IF HasBundle(mainProductSku) /\ session.commercial.bundleInterestShown
        THEN [type |-> "bundle_checkout", mainProduct |-> mainProductSku]
        ELSE [type |-> "product_checkout", mainProduct |-> mainProductSku]

(***************************************************************************)
(* Whitelist validation and the fallbacks                                  *)
(***************************************************************************)

\* selected_skus of a model output: absent, an array, or a value for...of
\* cannot iterate (a number, a plain object).
NoSkus == [kind |-> "absent", list |-> <<>>]
SkuList(list) == [kind |-> "list", list |-> list]
NotIterable == [kind |-> "not_iterable", list |-> <<>>]

\* A parsed model output; intent "" is a missing intent.
AiOutput(intent, skus) == [intent |-> intent, selected_skus |-> skus]

\* validateAIOutput(aiOutput, whitelist, sessionId): null without an intent;
\* for a product recommendation the selected SKUs filtered by whitelist
\* membership, in order; a TypeError when selected_skus is not iterable.
\* A validation that checks the intent and lets every SKU through.
validateAIOutput_open(aiOutput, whitelist) ==
    IF aiOutput.intent = "" THEN [isNull |-> TRUE, threw |-> FALSE, aiOutput |-> aiOutput]
    ELSE IF aiOutput.intent = "product_recommendation"
               /\ aiOutput.selected_skus.kind = "not_iterable"
    THEN [isNull |-> FALSE, threw |-> TRUE, aiOutput |-> aiOutput]
    ELSE [isNull |-> FALSE, threw |-> FALSE, aiOutput |-> aiOutput]

validateAIOutput(aiOutput, whitelist) ==
    IF aiOutput.intent = "" THEN [isNull |-> TRUE, threw |-> FALSE, aiOutput |-> aiOutput]
    ELSE IF aiOutput.intent = "product_recommendation" /\ aiOutput.selected_skus.kind # "absent"
    THEN IF aiOutput.selected_skus.kind = "not_iterable"
         THEN [isNull |-> FALSE, threw |-> TRUE, aiOutput |-> aiOutput]
         ELSE [isNull |-> FALSE, threw |-> FALSE,
               aiOutput |-> [aiOutput EXCEPT !.selected_skus =
                    SkuList(SelectSeq(aiOutput.selected_skus.list,
                                      LAMBDA sku : sku \in Range(whitelist)))]]
    ELSE [isNull |-> FALSE, threw |-> FALSE, aiOutput |-> aiOutput]

\* A fallback that recommends the whole whitelist.
ContextFallback_whole(session) ==
    LET ctx == session.context
        hasWhitelist == Len(session.currentWhitelist) > 0
        hasContext == ctx.material # "" \/ ctx.furnitureType # ""
                          \/ (ctx.seatCount.has /\ ctx.seatCount.n # 0)
    IN  IF hasWhitelist /\ hasContext
        THEN AiOutput("product_recommendation", SkuList(session.currentWhitelist))
        ELSE IF hasContext /\ ~hasWhitelist
        THEN AiOutput("clarification", NoSkus)
        ELSE AiOutput("greeting", NoSkus)

\* LAYER 4: the fallback object built from the session when no JSON was found.
ContextFallback(session) ==
    LET ctx == session.context
        hasWhitelist == Len(session.currentWhitelist) > 0
        hasContext == ctx.material # "" \/ ctx.furnitureType # ""
                          \/ (ctx.seatCount.has /\ ctx.seatCount.n # 0)
    IN  IF hasWhitelist /\ hasContext
        THEN AiOutput("product_recommendation", SkuList(Prefix(session.currentWhitelist, 3)))
        ELSE IF hasContext /\ ~hasWhitelist
        THEN AiOutput("clarification", NoSkus)
        ELSE AiOutput("greeting", NoSkus)

\* The model's message content: how the JSON is wrapped and what it parses to.
\*   wrap: plain (the whole content is JSON), code_block, embedded (an object
\*   inside other text), text (no JSON at all), absent (content is null).
\*   value: object (with its intent and selected_skus), other (an array or a
\*   scalar: no intent), null.
Content(wrap, value, intent, skus) ==
    [wrap |-> wrap, value |-> value, aiOutput |-> AiOutput(intent, skus)]

\* LAYERS 1-4: the value the layered parse ends with.
\*   plain: JSON.parse succeeds; a null value makes aiOutput.intent throw inside
\*   the try, and no later layer matches.
\*   code_block: layer 2 parses the block; a null in it is falsy and falls through.
\*   embedded: layer 3 parses the object.
ParseContent(content, session) ==
    IF content.wrap \in {"plain", "code_block"} /\ content.value = "object" THEN content.aiOutput
    ELSE IF content.wrap \in {"plain", "code_block"} /\ content.value = "other"
    THEN AiOutput("", NoSkus)
    ELSE IF content.wrap = "embedded" /\ content.value = "object" THEN content.aiOutput
    ELSE ContextFallback(session)

(***************************************************************************)
(* The /chat handler                                                       *)
(***************************************************************************)

\* conversationHistory is cut back once it is longer than this.
HistoryCap == 12

IdleReq == [pc |-> "idle", sid |-> "", message |-> "", turn |-> 0,
            aiOutput |-> AiOutput("", NoSkus), validatedAgainst |-> <<>>,
            idx |-> 0, cards |-> <<>>, gen |-> 0, shownAtStart |-> 0]

NoResponse == [req |-> 0, sid |-> "", turn |-> 0, status |-> 0, kind |-> "none",
               intent |-> "", cards |-> <<>>, bundleOffer |-> FALSE, crossSell |-> "",
               closing |-> "", errorMessage |-> FALSE, cause |-> ""]

NoRenderCall == [sid |-> "", sku |-> "", inWhitelist |-> TRUE]

\* The session object the Version 13 handler creates. gen tells the objects
\* created for one session id apart: a request keeps a reference to the object
\* it looked up, also after the map entry is deleted or replaced.
NewSessionV13 == [has |-> TRUE, conversationHistory |-> <<>>, lastActivity |-> 0,
                  currentWhitelist |-> <<>>, gen |-> 0]

NoSessionV13 == [NewSessionV13 EXCEPT !.has = FALSE]

ChatIdle ==
    /\ sessions = [sid \in SessionIds |-> NoSession]
    /\ sessionsV13 = [sid \in SessionIds |-> NoSessionV13]
    /\ lastSearch = [sid \in SessionIds |-> <<>>]
    /\ reqs = [r \in ReqIds |-> IdleReq]
    /\ running = NoReq
    /\ lastResponse = NoResponse
    /\ lastRenderCall = NoRenderCall

HistoryEntry(role, turn) == [role |-> role, turn |-> turn]

\* A cap that keeps the first 3 and the last 10 entries.
CapHistory_first3(h) ==
    IF Len(h) > HistoryCap
    THEN SubSeq(h, 1, 3) \o SubSeq(h, Len(h) - 9, Len(h))
    ELSE h

\* Keep the first 2 and the last 10 entries of a history longer than 12.
CapHistory(h) ==
    IF Len(h) > HistoryCap
    THEN SubSeq(h, 1, 2) \o SubSeq(h, Len(h) - 9, Len(h))
    ELSE h

RECURSIVE PushNew(_, _)
\* productsShown after pushing each SKU it does not include yet.
PushNew(shown, skus) ==
    IF skus = <<>> THEN shown
    ELSE PushNew(IF Head(skus) \in Range(shown) THEN shown ELSE Append(shown, Head(skus)),
                 Tail(skus))

\* The two updates of productsShown after a product recommendation: the SKUs
\* not yet included, then all selected SKUs once more.
TrackShown(shown, aiOutput) ==
    IF aiOutput.intent = "product_recommendation" /\ aiOutput.selected_skus.kind = "list"
    THEN PushNew(shown, aiOutput.selected_skus.list) \o aiOutput.selected_skus.list
    ELSE shown

\* The catch of the handler: status 500, the retry message and error.message.
ErrorResponse(r, sid, turn, cause) ==
    [NoResponse EXCEPT !.req = r, !.sid = sid, !.turn = turn, !.status = 500,
                       !.kind = "error", !.errorMessage = TRUE, !.cause = cause]

\* A check of the request body that looks at the session id only.
BadRequest_sidOnly(sid, message) == sid = ""

\* if (!message || !sessionId): a field of the request body is missing.
BadRequest(sid, message) == message = "" \/ sid = ""

\* The handler from its entry to its first await: the 400 answer, the session
\* lookup or creation, the context and sentiment updates, the closing fast
\* path, or the call of the model. A new request takes the lowest free slot.
ChatStart(r, sid, message) ==
    /\ running = NoReq
    /\ reqs[r].pc = "idle"
    /\ \A q \in ReqIds : q < r => reqs[q].pc # "idle"
    /\ IF BadRequest(sid, message)
       THEN /\ lastResponse' = [NoResponse EXCEPT !.req = r, !.sid = sid, !.status = 400,
                                                  !.kind = "bad_request"]
            /\ UNCHANGED <<sessions, reqs>>
       ELSE /\ (IF sessions[sid].has THEN sessions[sid].messageCount ELSE 0) < TurnCap
            /\ LET s0 == IF sessions[sid].has THEN sessions[sid] ELSE NewSession
                   sentiment == detectCustomerSentiment(message)
                   s1 == [s0 EXCEPT !.messageCount = @ + 1,
                                    !.context = ExtractContext(@, message),
                                    !.commercial = ApplySentiment(@, sentiment)]
                   turn == s1.messageCount
               IN  IF sentiment.readyToBuy /\ Len(s1.commercial.productsShown) > 0
                   THEN LET closingResponse == buildClosingResponse(s1)
                        IN  /\ sessions' = [sessions EXCEPT ![sid] =
                                  [s1 EXCEPT !.conversationHistory =
                                      @ \o <<HistoryEntry("user", turn),
                                             HistoryEntry("assistant", turn)>>]]
                            /\ lastResponse' =
                                  [NoResponse EXCEPT !.req = r, !.sid = sid, !.turn = turn,
                                       !.status = 200, !.kind = "closing",
                                       !.intent = "checkout_flow",
                                       !.closing = closingResponse.type]
                            /\ UNCHANGED reqs
                   ELSE /\ sessions' = [sessions EXCEPT ![sid] = s1]
                        /\ reqs' = [reqs EXCEPT ![r] =
                              [IdleReq EXCEPT !.pc = "await_model", !.sid = sid,
                                              !.message = message, !.turn = turn,
                                              !.shownAtStart =
                                                  Len(s0.commercial.productsShown)]]
                        /\ UNCHANGED lastResponse
    /\ UNCHANGED <<running, lastRenderCall, catalogVars, cacheVars, probe, lastSearch, sessionsV13>>

\* A search handler that also records what it found as shown.
SearchTool_shown(session, args) ==
    [session EXCEPT
        !.context = [furnitureType |-> IF args.furnitureType # "" THEN args.furnitureType
                                       ELSE @.furnitureType,
                     seatCount |-> IF args.seatCount # 0 THEN SomeNumber(args.seatCount)
                                   ELSE @.seatCount,
                     material |-> IF args.material # "" THEN args.material ELSE @.material],
        !.currentWhitelist = SkusOf(searchProducts(args)),
        !.commercial.productsShown = @ \o SkusOf(searchProducts(args))]

\* The search_products handler: the arguments overwrite the context and the
\* search result replaces the whitelist.
SearchTool(session, args) ==
    [session EXCEPT
        !.context = [furnitureType |-> IF args.furnitureType # "" THEN args.furnitureType
                                       ELSE @.furnitureType,
                     seatCount |-> IF args.seatCount # 0 THEN SomeNumber(args.seatCount)
                                   ELSE @.seatCount,
                     material |-> IF args.material # "" THEN args.material ELSE @.material],
        !.currentWhitelist = SkusOf(searchProducts(args))]

ToolCall(name, argsValid, args) == [name |-> name, argsValid |-> argsValid, args |-> args]

RECURSIVE LastSearchResult(_, _)
\* What the last search_products call the loop ran returned (previous: the
\* result of the session's last search before the loop).
LastSearchResult(previous, toolCalls) ==
    IF toolCalls = <<>> THEN previous
    ELSE IF ~Head(toolCalls).argsValid THEN previous
    ELSE IF Head(toolCalls).name = "search_products"
    THEN LastSearchResult(SkusOf(searchProducts(Head(toolCalls).args)), Tail(toolCalls))
    ELSE LastSearchResult(previous, Tail(toolCalls))

RECURSIVE RunToolLoop(_, _)
\* The for loop over aiMessage.tool_calls: JSON.parse of the arguments ends it
\* with a SyntaxError; search_products is the only tool that writes the session.
RunToolLoop(session, toolCalls) ==
    IF toolCalls = <<>> THEN session
    ELSE IF ~Head(toolCalls).argsValid THEN session
    ELSE IF Head(toolCalls).name = "search_products"
    THEN RunToolLoop(SearchTool(session, Head(toolCalls).args), Tail(toolCalls))
    ELSE RunToolLoop(session, Tail(toolCalls))

\* A cross-sell decision without the limit of two per session.
CrossSellDue_uncapped(session, shouldOfferBundle, crossSells) ==
    /\ ~shouldOfferBundle
    /\ session.commercial.positiveSignalReceived
    /\ Len(crossSells) > 0

\* assembleResponse: a cross-sell is suggested when no bundle is to be
\* offered, the customer has shown interest, there is a suggestion and fewer
\* than two were shown.
CrossSellDue(session, shouldOfferBundle, crossSells) ==
    /\ ~shouldOfferBundle
    /\ session.commercial.positiveSignalReceived
    /\ Len(crossSells) > 0
    /\ Len(session.commercial.crossSellsShown) < 2

\* assembleResponse after the cards, and the handler after it: the bundle offer
\* or cross-sell, the history, productsShown; the response is sent and the
\* request ends.
CompleteTurn(r, aiOutput, cards) ==
    LET sid == reqs[r].sid
        turn == reqs[r].turn
        session == sessions[sid]
        commercial == session.commercial
        isRecommendation == aiOutput.intent = "product_recommendation"
        hasSkus == aiOutput.selected_skus.kind = "list" /\ Len(aiOutput.selected_skus.list) > 0
        unavailable == isRecommendation /\ hasSkus /\ Len(cards) = 0
        offersConsidered == isRecommendation /\ hasSkus /\ ~unavailable
        mainProductSku == IF hasSkus THEN aiOutput.selected_skus.list[1] ELSE ""
        hasPositiveSignal == commercial.positiveSignalReceived
        bundleEligibility == checkBundleEligibility(session)
        shouldOfferBundle ==
            /\ offersConsidered
            /\ bundleEligibility.eligible
            /\ (hasPositiveSignal \/ session.messageCount >= 3
                    \/ Len(commercial.productsShown) > 0)
        bundleOffer == shouldOfferBundle /\ HasBundle(mainProductSku)
        crossSells == IF offersConsidered
                      THEN getCrossSellSuggestions(mainProductSku, session) ELSE <<>>
        crossSell == offersConsidered /\ CrossSellDue(session, shouldOfferBundle, crossSells)
        c1 == IF bundleOffer
              THEN [commercial EXCEPT !.bundlesOffered = @ + 1, !.lastOfferType = "bundle"]
              ELSE commercial
        c2 == IF crossSell
              THEN [c1 EXCEPT !.crossSellsShown = Append(@, crossSells[1])]
              ELSE c1
        c3 == [c2 EXCEPT !.productsShown = TrackShown(@, aiOutput)]
    IN  /\ sessions' = [sessions EXCEPT ![sid] =
              [session EXCEPT
                  !.commercial = c3,
                  !.conversationHistory =
                      CapHistory(@ \o <<HistoryEntry("user", turn),
                                        HistoryEntry("assistant", turn)>>)]]
        /\ lastResponse' =
              [NoResponse EXCEPT
                  !.req = r, !.sid = sid, !.turn = turn, !.status = 200,
                  !.kind = IF ~isRecommendation THEN "text"
                           ELSE IF unavailable THEN "unavailable" ELSE "recommendation",
                  !.intent = aiOutput.intent,
                  !.cards = cards,
                  !.bundleOffer = bundleOffer,
                  !.crossSell = IF crossSell THEN crossSells[1] ELSE ""]
        /\ reqs' = [reqs EXCEPT ![r] = IdleReq]

\* The model call fails (the await rejects): the catch answers with status 500.
ModelFails(r) ==
    /\ running = NoReq
    /\ reqs[r].pc = "await_model"
    /\ lastResponse' = ErrorResponse(r, reqs[r].sid, reqs[r].turn, "model_call")
    /\ reqs' = [reqs EXCEPT ![r] = IdleReq]
    /\ UNCHANGED <<sessions, running, lastRenderCall, catalogVars, cacheVars, probe, lastSearch, sessionsV13>>

\* A tool loop that writes what it found to every session of the map, as a
\* whitelist kept outside the session objects would.
ModelReturnsToolCalls_global(r, toolCalls) ==
    /\ running = NoReq
    /\ reqs[r].pc = "await_model"
    /\ sessions' = [sid \in SessionIds |->
                       IF sessions[sid].has THEN RunToolLoop(sessions[sid], toolCalls)
                       ELSE sessions[sid]]
    /\ lastResponse' = ErrorResponse(r, reqs[r].sid, reqs[r].turn,
            IF \E i \in 1..Len(toolCalls) : ~toolCalls[i].argsValid
            THEN "tool_arguments" ELSE "tool_handler")
    /\ reqs' = [reqs EXCEPT ![r] = IdleReq]
    /\ lastSearch' = [lastSearch EXCEPT ![reqs[r].sid] = LastSearchResult(@, toolCalls)]
    /\ UNCHANGED <<running, lastRenderCall, sessionsV13, catalogVars, cacheVars, probe>>

\* The model answers with tool calls: the loop runs, and the statement after
\* the loop reads toolCall, which is not in scope there (ReferenceError), so the
\* turn ends in the catch with what the loop wrote to the session.
ModelReturnsToolCalls(r, toolCalls) ==
    /\ running = NoReq
    /\ reqs[r].pc = "await_model"
    /\ sessions' = [sessions EXCEPT ![reqs[r].sid] = RunToolLoop(@, toolCalls)]
    /\ lastResponse' = ErrorResponse(r, reqs[r].sid, reqs[r].turn,
            IF \E i \in 1..Len(toolCalls) : ~toolCalls[i].argsValid
            THEN "tool_arguments" ELSE "tool_handler")
    /\ reqs' = [reqs EXCEPT ![r] = IdleReq]
    /\ lastSearch' = [lastSearch EXCEPT ![reqs[r].sid] = LastSearchResult(@, toolCalls)]
    /\ UNCHANGED <<running, lastRenderCall, sessionsV13, catalogVars, cacheVars, probe>>

\* The model answers with content: the layered parse, the validation against
\* the session's whitelist and assembleResponse up to its first await (the
\* card rendering), or to the end of the turn when no card is to be rendered.
ModelReturnsContent(r, content) ==
    /\ running = NoReq
    /\ reqs[r].pc = "await_model"
    /\ LET sid == reqs[r].sid
           session == sessions[sid]
           parsed == ParseContent(content, session)
           validated == validateAIOutput(parsed, session.currentWhitelist)
           aiOutput == IF validated.isNull THEN AiOutput("clarification", NoSkus)
                       ELSE validated.aiOutput
       IN  IF validated.threw
           THEN /\ lastResponse' = ErrorResponse(r, sid, reqs[r].turn, "model_content")
                /\ reqs' = [reqs EXCEPT ![r] = IdleReq]
                /\ UNCHANGED <<sessions, running>>
           ELSE IF /\ aiOutput.intent = "product_recommendation"
                   /\ aiOutput.selected_skus.kind = "list"
                   /\ Len(aiOutput.selected_skus.list) > 0
           THEN /\ reqs' = [reqs EXCEPT ![r] =
                      [@ EXCEPT !.pc = "render", !.aiOutput = aiOutput,
                                !.validatedAgainst = session.currentWhitelist,
                                !.idx = 1, !.cards = <<>>]]
                /\ running' = r
                /\ UNCHANGED <<sessions, lastResponse>>
           ELSE /\ CompleteTurn(r, aiOutput, <<>>)
                /\ UNCHANGED running
    /\ UNCHANGED <<lastRenderCall, catalogVars, cacheVars, probe, lastSearch, sessionsV13>>

\* The cards after the card for the SKU at idx is known.
WithCard(req, card) ==
    [req EXCEPT !.pc = "render", !.idx = @ + 1,
                !.cards = IF card.isNull THEN @ ELSE Append(@, card.sku)]

CardOptions(req) == [showBundleHint |-> req.idx = 1, personalisation |-> ""]

\* The cache entry getCachedShopifyData finds for a SKU.
CacheEntry(sku) == IF sku \in DOMAIN SHOPIFY_CACHE THEN SHOPIFY_CACHE[sku] ELSE NoEntry

\* renderMultipleProducts calls renderProductCard for the next SKU. The call
\* returns at once for a SKU without product data, on a cache hit and without
\* an access token (the request keeps running); otherwise it awaits the
\* Shopify fetch and other requests may run.
RenderCall(r) ==
    /\ running = r
    /\ reqs[r].pc = "render"
    /\ reqs[r].idx <= Len(reqs[r].aiOutput.selected_skus.list)
    /\ LET sku == reqs[r].aiOutput.selected_skus.list[reqs[r].idx]
           cached == CacheEntry(sku)
       IN  /\ lastRenderCall' =
                 [sid |-> reqs[r].sid, sku |-> sku,
                  inWhitelist |-> sku \in Range(sessions[reqs[r].sid].currentWhitelist)]
           /\ IF ~HasProduct(sku)
              THEN /\ reqs' = [reqs EXCEPT ![r] = WithCard(@, NullCard)]
                   /\ UNCHANGED running
              ELSE IF IsFresh(cached, now)
              THEN /\ reqs' = [reqs EXCEPT ![r] =
                         WithCard(@, renderProductCard(sku, CardOptions(@), cached.data))]
                   /\ UNCHANGED running
              ELSE IF ~SHOPIFY_ACCESS_TOKEN
              THEN /\ reqs' = [reqs EXCEPT ![r] =
                         WithCard(@, renderProductCard(sku, CardOptions(@), NoShopifyData))]
                   /\ UNCHANGED running
              ELSE /\ reqs' = [reqs EXCEPT ![r].pc = "await_shopify"]
                   /\ running' = NoReq
    /\ UNCHANGED <<sessions, lastResponse, catalogVars, cacheVars, probe, lastSearch, sessionsV13>>

\* The Shopify fetch of a card ends: a product is cached and used for the
\* card; after a failure (null) the card is built from the local data.
ShopifyReturns(r, outcome) ==
    /\ running = NoReq
    /\ reqs[r].pc = "await_shopify"
    /\ LET sku == reqs[r].aiOutput.selected_skus.list[reqs[r].idx]
       IN  /\ reqs' = [reqs EXCEPT ![r] =
                 WithCard(@, renderProductCard(sku, CardOptions(@), outcome.data))]
           /\ SHOPIFY_CACHE' = IF sku \in DOMAIN SHOPIFY_CACHE
                               THEN CacheAfterFetch(SHOPIFY_CACHE, sku, outcome, now)
                               ELSE SHOPIFY_CACHE
    /\ running' = r
    /\ UNCHANGED <<sessions, lastResponse, lastRenderCall, catalogVars,
                   SHOPIFY_ACCESS_TOKEN, now, calls, lastReturn, probe, lastSearch, sessionsV13>>

\* All cards are known: the rest of assembleResponse and of the handler.
AssembleRest(r) ==
    /\ running = r
    /\ reqs[r].pc = "render"
    /\ reqs[r].idx > Len(reqs[r].aiOutput.selected_skus.list)
    /\ CompleteTurn(r, reqs[r].aiOutput, reqs[r].cards)
    /\ running' = NoReq
    /\ UNCHANGED <<lastRenderCall, catalogVars, cacheVars, probe, lastSearch, sessionsV13>>

(***************************************************************************)
(* Catalog functions on bounded catalogs: SpecCatalog                      *)
(***************************************************************************)

Product(sku, hasCategory, types, materials, seats, inventory) ==
    [sku |-> sku, hasCategory |-> hasCategory, types |-> types, materials |-> materials,
     seats |-> seats, names |-> IF sku = "FARO" THEN {"faro"} ELSE {},
     inventory |-> inventory, price |-> IF sku = "COVER" THEN 0 ELSE 9,
     hasCover |-> sku = "FARO", assemblyRequired |-> sku = "DINE"]

\* Seat counts of the bounded catalogs (0: no seat count).
FaroShapes == {Product("FARO", TRUE, {"lounge"}, {"rattan"}, n, NoNumber) :
                n \in {MaxSeats - 1, MaxSeats}}
DineShapes == {Product("DINE", TRUE, {"dining"}, {"teak"}, n, SomeNumber(0)) :
                n \in {0, MaxSeats - 2, MaxSeats - 1, MaxSeats}}
CoverShapes ==
    {Product("COVER", c[1], c[2], c[3], n, NoNumber) :
        c \in {<<FALSE, {}, {}>>, <<TRUE, {}, {}>>, <<TRUE, {"lounge"}, {"rattan"}>>},
        n \in {0, MaxSeats - 2, MaxSeats}}

Catalogs == {<<f, d, c>> : f \in FaroShapes, d \in DineShapes, c \in CoverShapes}

InventoryRows == {NoNumber, SomeNumber(0), SomeNumber(3)}
Inventories == {[s \in AllSkus |-> IF s = "GHOST" THEN NoNumber ELSE f[s]] :
                    f \in [CatalogSkus -> InventoryRows]}

SearchCriteria ==
    [furnitureType : {"", "lounge", "sofabed"},
     material : {"", "rattan"},
     seatCount : {0, MaxSeats - 1, MaxSeats + 1},
     productName : {"", "faro"},
     maxResults : {DefaultMaxResults, 1}]

ShopifyOutcomes == {NoShopifyData, ShopifyData(0, 0), ShopifyData(8, 6), ShopifyData(8, 30)}

RenderOptions == [showBundleHint : BOOLEAN, personalisation : {""}]

NoCriteria == [furnitureType |-> "", material |-> "", seatCount |-> 0, productName |-> "",
               maxResults |-> DefaultMaxResults]

\* A call of renderProductCard as the re-render checks record it: the
\* arguments, the cache entry of the SKU and the time when the call looked
\* at the cache, the Shopify data the call got with the timestamp of the entry
\* holding it, and the card returned.
NoCardCall == [sku |-> "", options |-> [showBundleHint |-> FALSE, personalisation |-> ""],
               entryBefore |-> NoEntry, at |-> 0, done |-> TRUE,
               data |-> NoShopifyData, stamp |-> 0, card |-> NullCard]

IdleProbe == [op |-> "none", criteria |-> NoCriteria, result |-> <<>>,
              sku |-> "GHOST", shopifyData |-> NoShopifyData, card |-> NullCard,
              stock |-> 0, threw |-> FALSE, argsNull |-> FALSE, nonStrings |-> {},
              session |-> NoSession, targetPrice |-> 0, currentPrice |-> 0,
              eligibility |-> [eligible |-> FALSE, reason |-> ""],
              bundleEligibility |-> [eligible |-> FALSE, reason |-> "", offerType |-> ""],
              sid |-> "", calls |-> 0,
              content |-> [wrap |-> "", value |-> "", aiOutput |-> AiOutput("", NoSkus)],
              fallback |-> AiOutput("", NoSkus),
              selected |-> <<>>, whitelist |-> <<>>,
              approved |-> <<>>, rejected |-> <<>>, again |-> <<>>,
              prev |-> NoCardCall, cur |-> NoCardCall]

InitCatalog ==
    /\ productIndex \in Catalogs
    /\ productKnowledgeCenter = productIndex
    /\ inventoryData \in Inventories
    /\ probe = IdleProbe
    /\ SHOPIFY_ACCESS_TOKEN = TRUE
    /\ CacheIdle
    /\ ChatIdle

\* A call of searchProducts(criteria).
Search(criteria) ==
    /\ probe.op = "none"
    /\ probe' = [IdleProbe EXCEPT !.op = "search", !.criteria = criteria,
                                  !.result = searchProducts(criteria)]
    /\ UNCHANGED <<catalogVars, cacheVars, chatVars>>

\* A call of renderProductCard(sku, options) whose Shopify lookup gave shopifyData.
Render(sku, options, shopifyData) ==
    /\ probe.op = "none"
    /\ probe' = [IdleProbe EXCEPT !.op = "render", !.sku = sku, !.shopifyData = shopifyData,
                                  !.card = renderProductCard(sku, options, shopifyData)]
    /\ UNCHANGED <<catalogVars, cacheVars, chatVars>>

NextCatalog ==
    \/ \E criteria \in SearchCriteria : Search(criteria)
    \/ \E sku \in AllSkus, options \in RenderOptions, shopifyData \in ShopifyOutcomes :
          Render(sku, options, shopifyData)

SpecCatalog == InitCatalog /\ [][NextCatalog]_vars

(***************************************************************************)
(* Claims on the catalog functions                                         *)
(***************************************************************************)

\* The candidates of the seat stage: after the category, type and material stages.
SeatCandidates(criteria) ==
    MaterialFilter(TypeFilter(BaseCandidates, criteria.furnitureType), criteria.material)

\* The largest seat count among a sequence of products (0 when none has one).
LargestSeats(s) ==
    IF \E i \in 1..Len(s) : s[i].seats > 0
    THEN CHOOSE m \in 1..MaxSeats :
            /\ \E i \in 1..Len(s) : s[i].seats = m
            /\ \A i \in 1..Len(s) : s[i].seats <= m
    ELSE 0

\* A search with a minimum seat count that no candidate reaches.
NoCandidateReaches(criteria) ==
    /\ criteria.seatCount # 0
    /\ Len(SeatCandidates(criteria)) > 0
    /\ \A i \in 1..Len(SeatCandidates(criteria)) :
          SeatCandidates(criteria)[i].seats < criteria.seatCount

\* C4: no SKU with resolved stock <= 0 is in a search result, every result is a
\* candidate that passed the other stages, and renderProductCard gives no card
\* for a SKU whose stock at render time is <= 0.
C4_StockExclusion ==
    /\ probe.op = "search" =>
          \A i \in 1..Len(probe.result) :
             /\ getProductStock(probe.result[i].sku) > 0
             /\ \E j \in 1..Len(BeforeStock(probe.criteria)) :
                   BeforeStock(probe.criteria)[j].sku = probe.result[i].sku
    /\ (probe.op = "render" /\ HasProduct(probe.sku)
            /\ RenderStock(probe.sku, probe.shopifyData) <= 0) => probe.card = NullCard

\* C4 witness: a search that had an out-of-stock candidate and still returned
\* other products.
C4_Witness ==
    /\ probe.op = "search"
    /\ Len(probe.result) > 0
    /\ \E j \in 1..Len(BeforeStock(probe.criteria)) :
          getProductStock(BeforeStock(probe.criteria)[j].sku) <= 0

FallbackSurvivors(criteria) ==
    {p \in Range(SeatCandidates(criteria)) :
        /\ p.seats > 0
        /\ p.seats >= LargestSeats(SeatCandidates(criteria)) - 1
        /\ (criteria.productName = "" \/ criteria.productName \in p.names)
        /\ getProductStock(p.sku) > 0}

ScenarioCatalog ==
    << Product("FARO", TRUE, {"lounge"}, {"rattan"}, MaxSeats, NoNumber),
       Product("DINE", TRUE, {"dining"}, {"teak"}, MaxSeats - 1, SomeNumber(0)),
       Product("COVER", TRUE, {}, {}, 0, NoNumber) >>

ScenarioInventory ==
    [s \in AllSkus |-> CASE s = "FARO" -> SomeNumber(12)
                         [] s = "DINE" -> SomeNumber(3)
                         [] s = "COVER" -> SomeNumber(0)
                         [] OTHER -> NoNumber]

InitCache ==
    /\ productIndex = ScenarioCatalog
    /\ productKnowledgeCenter = productIndex
    /\ inventoryData = ScenarioInventory
    /\ probe = IdleProbe
    /\ SHOPIFY_ACCESS_TOKEN \in BOOLEAN
    /\ CacheIdle
    /\ ChatIdle

NextCache ==
    \/ \E k \in Callers, sku \in CacheSkus : CacheCall(k, sku)
    \/ \E k \in Callers, outcome \in FetchOutcomes : FetchDone(k, outcome)
    \/ Tick

SpecCache == InitCache /\ [][NextCache]_vars

\* C5 as claimed: data of an entry aged >= 5 minutes is never returned, and a
\* call that finds a stale entry or none performs the external lookup.
C5_Original ==
    /\ lastReturn.fromCache => lastReturn.age < CACHE_TTL_MS
    /\ (lastReturn.outcome # "none" /\ ~lastReturn.fromCache) => lastReturn.lookedUp

\* C5 as amended: data of an entry aged >= 5 minutes is never returned; a call
\* that finds a stale entry or none performs the external lookup when the access
\* token is configured and returns null without a lookup when it is not; data
\* that is returned came from a successful lookup for the same SKU.
C5_CacheTTL ==
    /\ lastReturn.fromCache => (lastReturn.hadEntry /\ lastReturn.age < CACHE_TTL_MS)
    /\ (lastReturn.outcome # "none" /\ ~lastReturn.fromCache) =>
          /\ lastReturn.lookedUp <=> SHOPIFY_ACCESS_TOKEN
          /\ ~SHOPIFY_ACCESS_TOKEN => lastReturn.data.isNull
          /\ lastReturn.hadEntry => lastReturn.age >= CACHE_TTL_MS
    /\ ~lastReturn.data.isNull => lastReturn.handle = lastReturn.sku
    /\ \A k \in Callers : calls[k].pc = "fetching" =>
          (calls[k].hadEntry => calls[k].age >= CACHE_TTL_MS)

\* C5 witness: a call found an entry exactly 5 minutes old and its lookup
\* returned.
C5_Witness ==
    /\ lastReturn.lookedUp
    /\ lastReturn.hadEntry
    /\ lastReturn.age = CACHE_TTL_MS

\* A call of k returned null in this step after its lookup failed.
FailedReturn(k) ==
    /\ calls[k].pc = "fetching"
    /\ calls'[k].pc = "idle"
    /\ lastReturn'.outcome \in FetchFailures

\* C6: a failed lookup returns null and leaves the cache unchanged, no entry
\* holds a failure, and a call that returns null without a token-less
\* configuration has performed the lookup itself.
C6_NoNegativeCaching ==
    [][ /\ \A k \in Callers : FailedReturn(k) =>
              (lastReturn'.data.isNull /\ SHOPIFY_CACHE' = SHOPIFY_CACHE)
        /\ \A s \in CacheSkus : SHOPIFY_CACHE'[s].has => ~SHOPIFY_CACHE'[s].data.isNull
        /\ (lastReturn'.outcome # "none" /\ lastReturn'.data.isNull /\ SHOPIFY_ACCESS_TOKEN)
              => lastReturn'.lookedUp ]_vars

\* C6 witness: a lookup failed and the next call for the SKU is looking up again.
C6_Witness ==
    /\ lastReturn.outcome \in FetchFailures
    /\ \E k \in Callers : calls[k].pc = "fetching" /\ calls[k].sku = lastReturn.sku

(***************************************************************************)
(* Chat turns of one session, one after the other: SpecChat                *)
(***************************************************************************)

\* The session the requests are for.
ChatSessionIds == {"s1"}

\* Request bodies: "" is a missing message or session id.
ChatMessages ==
    {"", "hello", "i love it", "no thanks", "how do i order", "is there a bundle"}

\* Arguments of the search_products calls the model makes: all products in
\* stock, the dining sets, and a material no product has (an empty result).
ChatSearches ==
    {NoCriteria,
     [NoCriteria EXCEPT !.furnitureType = "dining"],
     [NoCriteria EXCEPT !.material = "aluminium"]}

\* aiMessage.tool_calls of the model answers with tool calls (an empty array
\* is truthy as well).
ChatToolCalls ==
    {<<ToolCall("search_products", TRUE, c)>> : c \in ChatSearches}
        \cup {<<>>,
              <<ToolCall("get_material_info", TRUE, NoCriteria),
                ToolCall("search_products", FALSE, NoCriteria)>>}

\* aiMessage.content of the model answers without tool calls.
ChatContents ==
    {Content("plain", "object", "product_recommendation", skus) :
        skus \in {SkuList(<<"FARO", "DINE">>), SkuList(<<"GHOST", "DINE">>), NotIterable}}
        \cup {Content("plain", "object", "", NoSkus),
              Content("plain", "other", "", NoSkus),
              Content("code_block", "object", "greeting", NoSkus),
              Content("text", "null", "", NoSkus)}

InitChat ==
    /\ productIndex = ScenarioCatalog
    /\ productKnowledgeCenter = productIndex
    /\ inventoryData = ScenarioInventory
    /\ probe = IdleProbe
    /\ SHOPIFY_ACCESS_TOKEN \in BOOLEAN
    /\ CacheIdle
    /\ ChatIdle

\* The client sends a request once the previous one is answered: only the
\* first request slot is ever taken.
NextChat ==
    \/ \E sid \in ChatSessionIds \cup {""}, message \in ChatMessages :
          /\ (message # "" /\ sid # "") => sessions[sid].messageCount < MaxTurns
          /\ ChatStart(1, sid, message)
    \/ ModelFails(1)
    \/ \E toolCalls \in ChatToolCalls : ModelReturnsToolCalls(1, toolCalls)
    \/ \E content \in ChatContents : ModelReturnsContent(1, content)
    \/ RenderCall(1)
    \/ \E outcome \in FetchOutcomes : ShopifyReturns(1, outcome)
    \/ AssembleRest(1)

SpecChat == InitChat /\ [][NextChat]_vars

(***************************************************************************)
(* Two requests of one session in flight at once: SpecRace                 *)
(***************************************************************************)

RaceMessages == {"hello", "no thanks"}

RaceToolCalls ==
    {<<ToolCall("search_products", TRUE, NoCriteria)>>,
     <<ToolCall("search_products", TRUE, [NoCriteria EXCEPT !.material = "aluminium"])>>}

RaceContents ==
    {Content("plain", "object", "product_recommendation", SkuList(<<"FARO", "DINE">>)),
     Content("text", "null", "", NoSkus)}

\* Requests arrive while others of the session are awaiting the model or the
\* Shopify fetch; the event loop runs one of them at a time between awaits.
NextRace ==
    \/ \E r \in ReqIds, sid \in ChatSessionIds, message \in RaceMessages :
          /\ sessions[sid].messageCount < RaceTurns
          /\ ChatStart(r, sid, message)
    \/ \E r \in ReqIds : ModelFails(r)
    \/ \E r \in ReqIds, toolCalls \in RaceToolCalls : ModelReturnsToolCalls(r, toolCalls)
    \/ \E r \in ReqIds, content \in RaceContents : ModelReturnsContent(r, content)
    \/ \E r \in ReqIds : RenderCall(r)
    \/ \E r \in ReqIds, outcome \in FetchOutcomes : ShopifyReturns(r, outcome)
    \/ \E r \in ReqIds : AssembleRest(r)

SpecRace == InitChat /\ [][NextRace]_vars

(***************************************************************************)
(* The Version 13 handler and its search_products handler: SpecV13         *)
(***************************************************************************)

RECURSIVE Dedupe(_, _)
\* [...new Set(list)]: the first occurrence of each element, in order.
Dedupe(seen, list) ==
    IF list = <<>> THEN seen
    ELSE Dedupe(IF Head(list) \in Range(seen) THEN seen ELSE Append(seen, Head(list)),
                Tail(list))

\* The whitelist after searchShopifyProducts returned foundSkus: the union
\* with the previous whitelist when products were found, else unchanged.
WhitelistAfterSearchV13(whitelist, foundSkus) ==
    IF Len(foundSkus) > 0 THEN Dedupe(<<>>, whitelist \o foundSkus) ELSE whitelist

\* The Version 13 handler from its entry to the model call: the 400 answer,
\* the session lookup or creation, lastActivity and the user's history entry
\* (for a message that is not an order inquiry or another handoff trigger).
ChatStartV13(r, sid, message) ==
    /\ running = NoReq
    /\ reqs[r].pc = "idle"
    /\ \A q \in ReqIds : q < r => reqs[q].pc # "idle"
    /\ IF message = "" \/ sid = ""
       THEN /\ lastResponse' = [NoResponse EXCEPT !.req = r, !.sid = sid, !.status = 400,
                                                  !.kind = "bad_request"]
            /\ UNCHANGED <<sessionsV13, reqs>>
       ELSE /\ Len(sessionsV13[sid].conversationHistory) < MaxTurns
            /\ LET s0 == IF sessionsV13[sid].has THEN sessionsV13[sid]
                         ELSE [NewSessionV13 EXCEPT !.gen = sessionsV13[sid].gen + 1]
                   turn == Len(s0.conversationHistory) + 1
               IN  /\ sessionsV13' = [sessionsV13 EXCEPT ![sid] =
                         [s0 EXCEPT !.lastActivity = now,
                                    !.conversationHistory =
                                        Append(@, HistoryEntry("user", turn))]]
                   /\ reqs' = [reqs EXCEPT ![r] =
                         [IdleReq EXCEPT !.pc = "await_model", !.sid = sid,
                                         !.message = message, !.turn = turn,
                                         !.gen = s0.gen]]
            /\ UNCHANGED lastResponse
    /\ UNCHANGED <<sessions, running, lastRenderCall, lastSearch, catalogVars, cacheVars, probe>>

\* The session object request r holds is still the entry of the sessions map;
\* otherwise its writes go to an object the map no longer holds.
HoldsEntryV13(r) ==
    /\ sessionsV13[reqs[r].sid].has
    /\ sessionsV13[reqs[r].sid].gen = reqs[r].gen

\* The catch of the Version 13 handler: status 500 and the retry message only.
ErrorResponseV13(r, sid, turn, cause) ==
    [NoResponse EXCEPT !.req = r, !.sid = sid, !.turn = turn, !.status = 500,
                       !.kind = "error", !.errorMessage = FALSE, !.cause = cause]

\* The model call of generateAISalesResponse fails: the catch answers.
ModelFailsV13(r) ==
    /\ running = NoReq
    /\ reqs[r].pc = "await_model"
    /\ lastResponse' = ErrorResponseV13(r, reqs[r].sid, reqs[r].turn, "model_call")
    /\ reqs' = [reqs EXCEPT ![r] = IdleReq]
    /\ UNCHANGED <<sessions, sessionsV13, running, lastRenderCall, lastSearch,
                   catalogVars, cacheVars, probe>>

\* The model asks for search_products and searchShopifyProducts returns the
\* products with foundSkus: the whitelist write of the handler.
SearchToolV13(r, foundSkus) ==
    /\ running = NoReq
    /\ reqs[r].pc = "await_model"
    /\ sessionsV13' = IF HoldsEntryV13(r)
                       THEN [sessionsV13 EXCEPT ![reqs[r].sid].currentWhitelist =
                                WhitelistAfterSearchV13(@, foundSkus)]
                       ELSE sessionsV13
    /\ lastSearch' = [lastSearch EXCEPT ![reqs[r].sid] = foundSkus]
    /\ reqs' = [reqs EXCEPT ![r].pc = "await_answer"]
    /\ UNCHANGED <<sessions, running, lastResponse, lastRenderCall, catalogVars, cacheVars, probe>>

\* The model answers (directly or after the tool results): the assistant's
\* history entry and the response.
RespondV13(r) ==
    /\ running = NoReq
    /\ reqs[r].pc \in {"await_model", "await_answer"}
    /\ sessionsV13' = IF HoldsEntryV13(r)
                       THEN [sessionsV13 EXCEPT ![reqs[r].sid].conversationHistory =
                                Append(@, HistoryEntry("assistant", reqs[r].turn))]
                       ELSE sessionsV13
    /\ lastResponse' = [NoResponse EXCEPT !.req = r, !.sid = reqs[r].sid,
                                          !.turn = reqs[r].turn, !.status = 200,
                                          !.kind = "text", !.intent = "sales"]
    /\ reqs' = [reqs EXCEPT ![r] = IdleReq]
    /\ UNCHANGED <<sessions, running, lastRenderCall, lastSearch, catalogVars, cacheVars, probe>>

\* Ordered SKU lists a product search of the Version 13 handler returns.
SearchResultsV13 == {<<>>, <<"FARO">>, <<"DINE">>, <<"DINE", "FARO">>}

NextV13 ==
    \/ \E r \in ReqIds, sid \in ChatSessionIds \cup {""}, message \in {"", "hello"} :
          ChatStartV13(r, sid, message)
    \/ \E r \in ReqIds : ModelFailsV13(r)
    \/ \E r \in ReqIds, foundSkus \in SearchResultsV13 : SearchToolV13(r, foundSkus)
    \/ \E r \in ReqIds : RespondV13(r)

SpecV13 == InitChat /\ [][NextV13]_vars

(***************************************************************************)
(* Whitelist claims                                                        *)
(***************************************************************************)

\* C1 (as stated): every SKU passed to renderProductCard is a member of the
\* session's currentWhitelist at the time of the call.
C1_WhitelistSoundness ==
    lastRenderCall.sid # "" => lastRenderCall.inWhitelist

\* C2 (as stated): while a request renders the cards of the SKUs it validated,
\* the session's whitelist is still the one they were validated against (no
\* other request of the session has replaced it in between).
C2_NoStaleRender ==
    \A r \in ReqIds :
        reqs[r].pc \in {"render", "await_shopify"}
            => sessions[reqs[r].sid].currentWhitelist = reqs[r].validatedAgainst

\* C3 (as stated): the whitelist of a session of the Version 13 handler is
\* exactly the ordered SKU list its last product search returned (empty
\* before the first search).
C3_WhitelistIsLastSearch ==
    \A sid \in SessionIds :
        sessionsV13[sid].has => sessionsV13[sid].currentWhitelist = lastSearch[sid]

(***************************************************************************)
(* Commerce and error handling claims                                      *)
(***************************************************************************)

\* The response carries a bundle offer: the offer assembleResponse appends, or
\* the closing response, which pitches the cover with the bundle saving
\* (product_checkout) or the whole bundle at its price (bundle_checkout).
ResponseHasBundleOffer(response) ==
    response.bundleOffer \/ response.closing \in {"product_checkout", "bundle_checkout"}

\* C8 (as stated): once bundleDeclined is true in a session, no response sent
\* for the session carries a bundle offer.
C8_OfferCooldown ==
    [][\A sid \in SessionIds :
          sessions[sid].commercial.bundleDeclined
              => (lastResponse' # lastResponse /\ lastResponse'.sid = sid
                    => ~ResponseHasBundleOffer(lastResponse'))]_vars

\* C8, for the offer of assembleResponse alone: once bundleDeclined is true,
\* it stays true, bundlesOffered stays as it is and no response carries the
\* appended offer.
C8_AppendedOfferCooldown ==
    [][\A sid \in SessionIds :
          sessions[sid].commercial.bundleDeclined
              => /\ sessions'[sid].commercial.bundleDeclined
                 /\ sessions'[sid].commercial.bundlesOffered
                        = sessions[sid].commercial.bundlesOffered
                 /\ (lastResponse' # lastResponse /\ lastResponse'.sid = sid
                        => ~lastResponse'.bundleOffer)]_vars

\* C9 (as stated): no model content ends the turn in the 500 error path.
C9_NeverThrows ==
    lastResponse.cause # "model_content"

\* C10 (as stated): an error response carries no error message text.
C10_NoInternalDetail ==
    lastResponse.status = 500 => ~lastResponse.errorMessage

(***************************************************************************)
(* The whitelist validators as functions: SpecValidate                     *)
(***************************************************************************)

\* Longest list of selected SKUs and longest whitelist tried.
MaxSelected == 3
MaxWhitelist == 2

\* The sequences over set s of length at most n.
SeqsUpTo(s, n) == UNION {[1..k -> s] : k \in 0..n}

\* The validator keeping one copy of each approved SKU.
validateSkusAgainstWhitelist_unique(selectedSkus, whitelist) ==
    [approved |-> Dedupe(<<>>, SelectSeq(selectedSkus, LAMBDA sku : sku \in Range(whitelist))),
     rejected |-> SelectSeq(selectedSkus, LAMBDA sku : sku \notin Range(whitelist))]

RECURSIVE ValidateLoop(_, _, _, _)
\* The loop of validateSkusAgainstWhitelist: each SKU is pushed to approved
\* when whitelist.includes(sku), else to rejected.
ValidateLoop(rest, whitelist, approved, rejected) ==
    IF rest = <<>> THEN [approved |-> approved, rejected |-> rejected]
    ELSE IF Head(rest) \in Range(whitelist)
    THEN ValidateLoop(Tail(rest), whitelist, Append(approved, Head(rest)), rejected)
    ELSE ValidateLoop(Tail(rest), whitelist, approved, Append(rejected, Head(rest)))

\* validateSkusAgainstWhitelist(selectedSkus, whitelist, sessionId)
validateSkusAgainstWhitelist(selectedSkus, whitelist) ==
    ValidateLoop(selectedSkus, whitelist, <<>>, <<>>)

\* A call of validateSkusAgainstWhitelist, and a second call on its approved list.
ValidateSkus(selectedSkus, whitelist) ==
    /\ probe.op = "none"
    /\ LET first == validateSkusAgainstWhitelist(selectedSkus, whitelist)
       IN  probe' = [IdleProbe EXCEPT
                        !.op = "validate_skus", !.selected = selectedSkus,
                        !.whitelist = whitelist,
                        !.approved = first.approved, !.rejected = first.rejected,
                        !.again = validateSkusAgainstWhitelist(first.approved, whitelist).approved]
    /\ UNCHANGED <<catalogVars, cacheVars, chatVars>>

\* A call of validateAIOutput on a product recommendation, and a second call
\* on its result.
ValidateOutput(selectedSkus, whitelist) ==
    /\ probe.op = "none"
    /\ LET first == validateAIOutput(AiOutput("product_recommendation", SkuList(selectedSkus)),
                                     whitelist)
       IN  probe' = [IdleProbe EXCEPT
                        !.op = "validate_output", !.selected = selectedSkus,
                        !.whitelist = whitelist,
                        !.approved = first.aiOutput.selected_skus.list,
                        !.again = validateAIOutput(first.aiOutput, whitelist)
                                      .aiOutput.selected_skus.list]
    /\ UNCHANGED <<catalogVars, cacheVars, chatVars>>

NextValidate ==
    \/ \E selectedSkus \in SeqsUpTo(AllSkus, MaxSelected),
          whitelist \in SeqsUpTo(AllSkus, MaxWhitelist) : ValidateSkus(selectedSkus, whitelist)
    \/ \E selectedSkus \in SeqsUpTo(AllSkus, MaxSelected),
          whitelist \in SeqsUpTo(AllSkus, MaxWhitelist) : ValidateOutput(selectedSkus, whitelist)

SpecValidate == InitChat /\ [][NextValidate]_vars

\* C11: the approved list is the subsequence of the selected SKUs that are in
\* the whitelist (order and duplicates kept), the rejected list is the rest,
\* and validating the approved list again gives the same list.
C11_PureFilter ==
    probe.op \in {"validate_skus", "validate_output"}
        => /\ probe.approved = SelectSeq(probe.selected,
                                         LAMBDA sku : sku \in Range(probe.whitelist))
           /\ probe.op = "validate_skus"
                => probe.rejected = SelectSeq(probe.selected,
                                              LAMBDA sku : sku \notin Range(probe.whitelist))
           /\ probe.again = probe.approved

\* C11: a call whose input has a whitelisted SKU twice around a rejected one.
C11_Witness ==
    /\ probe.op = "validate_skus"
    /\ Len(probe.selected) = 3
    /\ probe.selected[1] = probe.selected[3]
    /\ probe.approved = <<probe.selected[1], probe.selected[3]>>
    /\ probe.rejected = <<probe.selected[2]>>

(***************************************************************************)
(* The stock resolver as a function: SpecStock                             *)
(***************************************************************************)

\* Largest source count tried, and how far below zero the counts tried go;
\* the data files are loaded without any check of the counts.
MaxCount == 3
MaxOversold == 2

\* A source without a record, or with a record of some count.
StockRows == {NoNumber} \cup {SomeNumber(n) : n \in (0 - MaxOversold)..MaxCount}

\* The catalogs of the stock checks: FARO absent, or present with an
\* embedded inventory object or without one.
StockCatalogs ==
    {<<>>} \cup {<<Product("FARO", TRUE, {"lounge"}, {"rattan"}, MaxSeats, row)>> :
                    row \in StockRows}

\* The inventory snapshots of the stock checks.
StockInventories ==
    {[s \in AllSkus |-> IF s = "FARO" THEN row ELSE NoNumber] : row \in StockRows}

InitStock ==
    /\ productIndex \in StockCatalogs
    /\ productKnowledgeCenter = productIndex
    /\ inventoryData \in StockInventories
    /\ probe = IdleProbe
    /\ SHOPIFY_ACCESS_TOKEN = TRUE
    /\ CacheIdle
    /\ ChatIdle

\* A call of getProductStock(sku).
Stock(sku) ==
    /\ probe.op = "none"
    /\ probe' = [IdleProbe EXCEPT !.op = "stock", !.sku = sku,
                                  !.stock = getProductStock(sku)]
    /\ UNCHANGED <<catalogVars, cacheVars, chatVars>>

\* A call of isInStock(sku).
InStock(sku) ==
    /\ probe.op = "none"
    /\ probe' = [IdleProbe EXCEPT !.op = "in_stock", !.sku = sku,
                                  !.stock = IF isInStock(sku) THEN 1 ELSE 0]
    /\ UNCHANGED <<catalogVars, cacheVars, chatVars>>

NextStock ==
    \/ \E sku \in AllSkus : Stock(sku)
    \/ \E sku \in AllSkus : InStock(sku)

SpecStock == InitStock /\ [][NextStock]_vars

\* The two source counts of the SKU last asked about (0 when absent), and
\* whether each source has a record for it.
SnapshotHas == inventoryData[probe.sku].has
SnapshotCount == IF SnapshotHas THEN inventoryData[probe.sku].n ELSE 0
EmbeddedHas == HasProduct(probe.sku) /\ ProductOf(probe.sku).inventory.has
EmbeddedCount == IF EmbeddedHas THEN ProductOf(probe.sku).inventory.n ELSE 0

\* C12 as stated: max of the two counts when a source has a record, the
\* default only when neither has, and never a negative result.
C12_Original ==
    probe.op = "stock"
        => /\ (SnapshotHas \/ EmbeddedHas) => probe.stock = Max(SnapshotCount, EmbeddedCount)
           /\ ~(SnapshotHas \/ EmbeddedHas) => probe.stock = DefaultStock
           /\ probe.stock >= 0

\* C12: getProductStock returns the larger of the two counts when a source
\* has a record and the default of 100 when neither has; the result is
\* negative only when both sources hold a negative count; the call leaves
\* the sessions as they were.
C12_StockResolver ==
    probe.op = "stock"
        => /\ (SnapshotHas \/ EmbeddedHas) => probe.stock = Max(SnapshotCount, EmbeddedCount)
           /\ ~(SnapshotHas \/ EmbeddedHas) => probe.stock = DefaultStock
           /\ probe.stock < 0 <=> (SnapshotCount < 0 /\ EmbeddedCount < 0)
           /\ \A sid \in SessionIds : sessions[sid] = NoSession

\* C12: a call for a SKU with a record in both sources, the embedded count
\* the larger one.
C12_Witness ==
    /\ probe.op = "stock"
    /\ SnapshotHas /\ EmbeddedHas
    /\ 0 < SnapshotCount /\ SnapshotCount < EmbeddedCount
    /\ probe.stock = EmbeddedCount

(***************************************************************************)
(* Claims on the chat turn                                                 *)
(***************************************************************************)

\* C13: while a batch is rendered, the cards so far are those of the SKUs
\* that rendered, in input order; and a product_recommendation response
\* without any card carries the "aren't currently available" fallback text.
C13_BatchRendering ==
    /\ \A r \in ReqIds :
          reqs[r].pc = "render"
              => reqs[r].cards =
                     SelectSeq(SubSeq(reqs[r].aiOutput.selected_skus.list, 1, reqs[r].idx - 1),
                               LAMBDA sku : sku \in Range(reqs[r].cards))
    /\ (/\ lastResponse.status = 200
        /\ lastResponse.intent = "product_recommendation"
        /\ lastResponse.cards = <<>>)
          => lastResponse.kind = "unavailable"

(***************************************************************************)
(* Long sessions with closing turns: SpecClosing                           *)
(***************************************************************************)

ClosingMessages == {"hello", "how do i order"}

ClosingToolCalls == {<<ToolCall("search_products", TRUE, NoCriteria)>>}

ClosingContents ==
    {Content("plain", "object", "product_recommendation", SkuList(<<"FARO">>))}

\* One request at a time, up to TurnCap turns.
NextClosing ==
    \/ \E sid \in ChatSessionIds, message \in ClosingMessages : ChatStart(1, sid, message)
    \/ ModelFails(1)
    \/ \E toolCalls \in ClosingToolCalls : ModelReturnsToolCalls(1, toolCalls)
    \/ \E content \in ClosingContents : ModelReturnsContent(1, content)
    \/ RenderCall(1)
    \/ \E outcome \in FetchOutcomes : ShopifyReturns(1, outcome)
    \/ AssembleRest(1)

SpecClosing == InitChat /\ [][NextClosing]_vars

\* C14 as stated: the model is never called in a turn whose message is
\* classified as ready to buy.
C14_Original ==
    \A r \in ReqIds :
        reqs[r].pc = "await_model" => "readyToBuy" \notin Words(reqs[r].message)

\* C14: a turn whose message is classified as ready to buy calls the model
\* only when the session has shown no product yet; and a closing response is
\* sent by a turn that calls no model, in a session that has shown a product.
C14_FastPath ==
    [][/\ \A r \in ReqIds :
            (/\ reqs[r].pc = "idle"
             /\ reqs'[r].pc = "await_model"
             /\ "readyToBuy" \in Words(reqs'[r].message))
                => Len(sessions[reqs'[r].sid].commercial.productsShown) = 0
       /\ (lastResponse' # lastResponse /\ lastResponse'.kind = "closing")
            => /\ reqs' = reqs
               /\ Len(sessions[lastResponse'.sid].commercial.productsShown) > 0
               /\ lastResponse'.intent = "checkout_flow"]_vars

\* C14: a closing response was sent and no request is waiting for the model.
C14_Witness ==
    /\ lastResponse.kind = "closing"
    /\ lastResponse.closing = "product_checkout"
    /\ \A r \in ReqIds : reqs[r].pc = "idle"

\* C17: conversationHistory never holds more than 12 entries.
C17_BoundedHistory ==
    \A sid \in SessionIds : Len(sessions[sid].conversationHistory) <= HistoryCap

(***************************************************************************)
(* Sentiment, context and malformed requests: SpecMood                     *)
(***************************************************************************)

\* Turns a session takes in SpecMood.
MoodTurns == 3

MoodSessionIds == {"", "s1"}

MoodMessages ==
    {"", "hello", "i love it", "too expensive", "no thanks", "teak dining",
     "rattan lounge for 4 people", "for 0 people"}

MoodToolCalls ==
    {<<ToolCall("search_products", TRUE, [NoCriteria EXCEPT !.material = "aluminium"])>>,
     <<ToolCall("search_products", TRUE, [NoCriteria EXCEPT !.furnitureType = "lounge",
                                                            !.seatCount = MaxSeats - 1])>>}

MoodContents == {Content("text", "null", "", NoSkus)}

NextMood ==
    \/ \E sid \in MoodSessionIds, message \in MoodMessages :
          /\ ~BadRequest(sid, message) => sessions[sid].messageCount < MoodTurns
          /\ ChatStart(1, sid, message)
    \/ ModelFails(1)
    \/ \E toolCalls \in MoodToolCalls : ModelReturnsToolCalls(1, toolCalls)
    \/ \E content \in MoodContents : ModelReturnsContent(1, content)
    \/ RenderCall(1)
    \/ \E outcome \in FetchOutcomes : ShopifyReturns(1, outcome)
    \/ AssembleRest(1)

SpecMood == InitChat /\ [][NextMood]_vars

\* The strength of a sentiment value, weakest first.
SentimentRank(sentiment) ==
    CASE sentiment = "neutral" -> 0
      [] sentiment = "price_concerned" -> 1
      [] sentiment = "positive" -> 2

\* C15: the session sentiment never moves to a weaker value, and a message
\* with decline keywords alone leaves the sentiment as it was.
C15_SentimentStrengthens ==
    [][\A sid \in ChatSessionIds :
          /\ SentimentRank(sessions'[sid].commercial.sentiment)
                >= SentimentRank(sessions[sid].commercial.sentiment)
          /\ \A r \in ReqIds :
                (/\ reqs[r].pc = "idle" /\ reqs'[r].pc = "await_model"
                 /\ reqs'[r].sid = sid
                 /\ Words(reqs'[r].message) = {"decline"})
                    => sessions'[sid].commercial.sentiment
                            = sessions[sid].commercial.sentiment]_vars

\* The search arguments of a tool-call list that supply a value for a field.
SuppliedMaterials(toolCalls) ==
    {toolCalls[i].args.material : i \in 1..Len(toolCalls)} \ {""}
SuppliedTypes(toolCalls) ==
    {toolCalls[i].args.furnitureType : i \in 1..Len(toolCalls)} \ {""}
SuppliedSeats(toolCalls) ==
    {SomeNumber(toolCalls[i].args.seatCount) : i \in 1..Len(toolCalls)} \ {SomeNumber(0)}

\* C18: a context field that holds a value keeps holding one, and a field
\* changes only in a step that starts a turn whose message names a value for
\* that field, or that runs a search whose arguments supply one.
C18_ContextRetention ==
    [][\A sid \in ChatSessionIds :
          LET old == sessions[sid].context
              new == sessions'[sid].context
              Started(r) == /\ reqs[r].pc = "idle" /\ reqs'[r].pc = "await_model"
                            /\ reqs'[r].sid = sid
              Searched(r, toolCalls) ==
                  /\ reqs[r].pc = "await_model" /\ reqs[r].sid = sid
                  /\ ModelReturnsToolCalls(r, toolCalls)
          IN  /\ old.material # "" => new.material # ""
              /\ old.furnitureType # "" => new.furnitureType # ""
              /\ old.seatCount.has => new.seatCount.has
              /\ new.material # old.material
                    => \/ \E r \in ReqIds :
                             Started(r) /\ new.material \in Words(reqs'[r].message)
                       \/ \E r \in ReqIds, toolCalls \in MoodToolCalls :
                             Searched(r, toolCalls)
                                /\ new.material \in SuppliedMaterials(toolCalls)
              /\ new.furnitureType # old.furnitureType
                    => \/ \E r \in ReqIds :
                             Started(r) /\ new.furnitureType \in Words(reqs'[r].message)
                       \/ \E r \in ReqIds, toolCalls \in MoodToolCalls :
                             Searched(r, toolCalls)
                                /\ new.furnitureType \in SuppliedTypes(toolCalls)
              /\ new.seatCount # old.seatCount
                    => \/ \E r \in ReqIds :
                             /\ Started(r) /\ "seats" \in Words(reqs'[r].message)
                             /\ new.seatCount = SomeNumber(SeatsIn(reqs'[r].message))
                       \/ \E r \in ReqIds, toolCalls \in MoodToolCalls :
                             Searched(r, toolCalls)
                                /\ new.seatCount \in SuppliedSeats(toolCalls)]_vars

\* C18: the third turn of a session starts with a message that names a seat
\* count only: the material and furniture type of an earlier message are kept.
C18_Witness ==
    /\ reqs[1].pc = "await_model"
    /\ reqs[1].message = "for 0 people"
    /\ sessions["s1"].messageCount = 3
    /\ sessions["s1"].context.material = "rattan"
    /\ sessions["s1"].context.furnitureType = "lounge"
    /\ sessions["s1"].context.seatCount = SomeNumber(0)

\* C19: a request without a message or without a session id is answered
\* with status 400 and the prompt, and the sessions map is left as it was.
C19_BadRequest ==
    [][\A sid \in MoodSessionIds, message \in MoodMessages :
          ((message = "" \/ sid = "") /\ ChatStart(1, sid, message))
              => /\ lastResponse'.status = 400
                 /\ lastResponse'.kind = "bad_request"
                 /\ ~lastResponse'.errorMessage
                 /\ sessions' = sessions
                 /\ reqs' = reqs]_vars

\* C19: the 400 answer to a request for an existing session that has taken
\* turns, which it still has.
C19_Witness ==
    /\ lastResponse.status = 400
    /\ lastResponse.sid = "s1"
    /\ sessions["s1"].has
    /\ sessions["s1"].messageCount = 2
    /\ Len(sessions["s1"].conversationHistory) = 2

(***************************************************************************)
(* Bundle offers of concurrent requests: SpecOffers                        *)
(***************************************************************************)

\* Turns a session takes in SpecOffers.
OfferTurns == 7

OfferMessages == {"hello"}

OfferToolCalls == {<<ToolCall("search_products", TRUE, NoCriteria)>>}

OfferContents ==
    {Content("plain", "object", "product_recommendation", SkuList(<<"FARO">>))}

\* What the Shopify lookup of a card returns: a failure or the product.
OfferFetchOutcomes ==
    {o \in FetchOutcomes : o.kind = "not_ok" \/ (o.kind = "product" /\ o.data.stock # 0)}

\* Two request slots of one session, each turn a search or a recommendation
\* of the product that has a bundle.
NextOffers ==
    \/ \E r \in ReqIds, sid \in ChatSessionIds, message \in OfferMessages :
          /\ sessions[sid].messageCount < OfferTurns
          /\ ChatStart(r, sid, message)
    \/ \E r \in ReqIds : ModelFails(r)
    \/ \E r \in ReqIds, toolCalls \in OfferToolCalls : ModelReturnsToolCalls(r, toolCalls)
    \/ \E r \in ReqIds, content \in OfferContents : ModelReturnsContent(r, content)
    \/ \E r \in ReqIds : RenderCall(r)
    \/ \E r \in ReqIds, outcome \in OfferFetchOutcomes : ShopifyReturns(r, outcome)
    \/ \E r \in ReqIds : AssembleRest(r)

SpecOffers == InitChat /\ [][NextOffers]_vars

\* C16: bundlesOffered never exceeds maxOffersPerSession, also with two
\* requests of the session in flight; it grows by one in the step that sends
\* a response with the appended bundle offer and in no other step.
C16_MaxOffers ==
    [][\A sid \in ChatSessionIds :
          LET old == sessions[sid].commercial.bundlesOffered
              new == sessions'[sid].commercial.bundlesOffered
              offerSent == /\ lastResponse' # lastResponse
                           /\ lastResponse'.sid = sid
                           /\ lastResponse'.bundleOffer
          IN  /\ new <= maxOffersPerSession
              /\ new = IF offerSent THEN old + 1 ELSE old]_vars

\* C16: three offers were made, the last response recommends the product
\* with its card and without the offer, and another request is in flight.
C16_Witness ==
    /\ sessions["s1"].commercial.bundlesOffered = maxOffersPerSession
    /\ lastResponse.kind = "recommendation"
    /\ lastResponse.cards = <<"FARO">>
    /\ ~lastResponse.bundleOffer
    /\ \E r \in ReqIds : reqs[r].pc \in {"await_model", "await_shopify"}

(***************************************************************************)
(* The hourly session sweep of Version 13: SpecSweep                       *)
(***************************************************************************)

\* const oneHour = 60 * 60 * 1000, in minutes.
oneHour == 60

\* Hours the clock of SpecSweep runs, and turns a session takes in it.
MaxHours == 3
SweepTurns == 3

\* An hour passes; requests in flight stay in flight.
HourPasses ==
    /\ now < MaxHours * oneHour
    /\ now' = now + oneHour
    /\ UNCHANGED <<SHOPIFY_CACHE, SHOPIFY_ACCESS_TOKEN, calls, lastReturn, catalogVars,
                   probe, chatVars>>

\* The setInterval callback: every session whose lastActivity is more than
\* an hour old is deleted from the map. It runs between the awaits of the
\* requests in flight.
Sweep ==
    /\ running = NoReq
    /\ sessionsV13' =
          [sid \in SessionIds |->
              IF sessionsV13[sid].has /\ now - sessionsV13[sid].lastActivity > oneHour
              THEN [NoSessionV13 EXCEPT !.gen = sessionsV13[sid].gen]
              ELSE sessionsV13[sid]]
    /\ UNCHANGED <<sessions, reqs, running, lastResponse, lastRenderCall, lastSearch,
                   catalogVars, cacheVars, probe>>

NextSweep ==
    \/ \E sid \in ChatSessionIds :
          /\ Len(sessionsV13[sid].conversationHistory) < SweepTurns
          /\ ChatStartV13(1, sid, "hello")
    \/ ModelFailsV13(1)
    \/ SearchToolV13(1, <<"FARO">>)
    \/ RespondV13(1)
    \/ HourPasses
    \/ Sweep

SpecSweep == InitChat /\ [][NextSweep]_vars

\* C20: while a request is in flight, the session object it works on is the
\* entry of the sessions map: the sweep has not deleted it.
C20_NoEvictionMidRequest ==
    \A r \in ReqIds : reqs[r].pc # "idle" => HoldsEntryV13(r)

(***************************************************************************)
(* Idle sessions: SpecIdle (Version 14) and SpecReclaim (Version 13)       *)
(***************************************************************************)

\* Turns a session takes before it falls idle.
IdleTurns == 3

IdleMessages == {"hello", "teak dining"}

IdleContents == {Content("plain", "object", "greeting", NoSkus)}

\* The Version 14 server: requests and the passing of time. The file sets no
\* timer and never deletes from the sessions map.
NextIdle ==
    \/ \E sid \in ChatSessionIds, message \in IdleMessages :
          /\ sessions[sid].messageCount < IdleTurns
          /\ ChatStart(1, sid, message)
    \/ ModelFails(1)
    \/ \E content \in IdleContents : ModelReturnsContent(1, content)
    \/ HourPasses

\* Time passes, and a request in flight gets its answer or its failure.
SpecIdle ==
    /\ InitChat
    /\ [][NextIdle]_vars
    /\ WF_vars(HourPasses)
    /\ WF_vars(ModelFails(1) \/ \E content \in IdleContents : ModelReturnsContent(1, content))

\* The Version 13 server: requests, the passing of time and the sweep. The
\* last request arrives while the clock has two more hours to run.
NextReclaim ==
    \/ \E sid \in ChatSessionIds :
          /\ Len(sessionsV13[sid].conversationHistory) < SweepTurns
          /\ now + 2 * oneHour <= MaxHours * oneHour
          /\ ChatStartV13(1, sid, "hello")
    \/ ModelFailsV13(1)
    \/ RespondV13(1)
    \/ HourPasses
    \/ Sweep

\* The interval timer keeps firing and time keeps passing.
SpecReclaim ==
    /\ InitChat
    /\ [][NextReclaim]_vars
    /\ WF_vars(HourPasses)
    /\ WF_vars(Sweep /\ sessionsV13' # sessionsV13)

\* C21: a session in the sessions map of the Version 14 handler is
\* eventually removed from it once no further message arrives for it.
C21_Reclamation ==
    \A sid \in ChatSessionIds : sessions[sid].has ~> ~sessions[sid].has

\* C21 for the Version 13 server: a session in its map is eventually removed.
C21_ReclamationV13 ==
    \A sid \in ChatSessionIds : sessionsV13[sid].has ~> ~sessionsV13[sid].has

\* C21 for the Version 13 server: the sweep removes only sessions whose
\* inactivity exceeds one hour, and sessions are created by a request only.
C21_SweepOnlyExpiredV13 ==
    [][\A sid \in ChatSessionIds :
          /\ (sessionsV13[sid].has /\ ~sessionsV13'[sid].has)
                => now - sessionsV13[sid].lastActivity > oneHour
          /\ (~sessionsV13[sid].has /\ sessionsV13'[sid].has)
                => reqs[1].pc = "idle" /\ reqs'[1].sid = sid]_vars

(***************************************************************************)
(* renderProductCard called again: SpecRerender                            *)
(***************************************************************************)

RerenderSkus == {"FARO", "GHOST"}

\* renderProductCard(sku, options) up to the return of getCachedShopifyData
\* when that returns without a fetch (unknown SKU: no lookup at all; a fresh
\* entry; no access token), else up to the fetch it awaits.
RenderBegin(sku, options) ==
    /\ probe.op \in {"none", "rerender"}
    /\ probe.cur.done
    /\ LET cached == CacheEntry(sku)
           call == [NoCardCall EXCEPT !.sku = sku, !.options = options,
                                      !.entryBefore = cached, !.at = now]
           ended == IF ~HasProduct(sku) THEN call
                    ELSE IF IsFresh(cached, now)
                    THEN [call EXCEPT !.data = cached.data, !.stamp = cached.timestamp,
                                      !.card = renderProductCard(sku, options, cached.data)]
                    ELSE IF ~SHOPIFY_ACCESS_TOKEN
                    THEN [call EXCEPT !.card = renderProductCard(sku, options, NoShopifyData)]
                    ELSE [call EXCEPT !.done = FALSE]
       IN  probe' = [IdleProbe EXCEPT !.op = "rerender", !.prev = probe.cur, !.cur = ended]
    /\ UNCHANGED <<catalogVars, cacheVars, chatVars>>

\* The fetch of the call ends: a product is stored in the cache, and the card
\* is built from what the lookup returned.
RenderEnd(outcome) ==
    /\ probe.op = "rerender"
    /\ ~probe.cur.done
    /\ probe' = [probe EXCEPT
                    !.cur = [@ EXCEPT !.done = TRUE, !.data = outcome.data, !.stamp = now,
                                      !.card = renderProductCard(probe.cur.sku,
                                                                 probe.cur.options,
                                                                 outcome.data)]]
    /\ SHOPIFY_CACHE' = IF probe.cur.sku \in DOMAIN SHOPIFY_CACHE
                        THEN CacheAfterFetch(SHOPIFY_CACHE, probe.cur.sku, outcome, now)
                        ELSE SHOPIFY_CACHE
    /\ UNCHANGED <<SHOPIFY_ACCESS_TOKEN, now, calls, lastReturn, catalogVars, chatVars>>

NextRerender ==
    \/ \E sku \in RerenderSkus, options \in RenderOptions : RenderBegin(sku, options)
    \/ \E outcome \in FetchOutcomes : RenderEnd(outcome)
    \/ Tick

SpecRerender == InitChat /\ [][NextRerender]_vars

\* Two calls in a row, both ended, with the same SKU and the same options.
SameCallTwice ==
    /\ probe.op = "rerender"
    /\ probe.prev.sku # ""
    /\ probe.cur.done
    /\ probe.cur.sku = probe.prev.sku
    /\ probe.cur.options = probe.prev.options

\* C22 as stated: two such calls that found the same cache entry for the SKU
\* (catalog and stock never change) return the same card.
C22_Original ==
    (SameCallTwice /\ probe.cur.entryBefore = probe.prev.entryBefore)
        => probe.cur.card = probe.prev.card

\* C22: two such calls return the same card when the SKU is unknown, when no
\* access token is configured, or when the first call got Shopify data and
\* the second call looks at the cache while the entry holding it is fresh.
C22_IdempotentRerender ==
    (/\ SameCallTwice
     /\ \/ ~HasProduct(probe.cur.sku)
        \/ ~SHOPIFY_ACCESS_TOKEN
        \/ (~probe.prev.data.isNull /\ probe.cur.at - probe.prev.stamp < CACHE_TTL_MS))
        => probe.cur.card = probe.prev.card

\* C22: the first call fetched the product, time passed, and the second call
\* returned the same card from the cache.
C22_Witness ==
    /\ SameCallTwice
    /\ ~probe.prev.entryBefore.has
    /\ ~probe.prev.data.isNull
    /\ probe.cur.at > probe.prev.stamp
    /\ ~probe.cur.card.isNull
    /\ probe.cur.card = probe.prev.card

(***************************************************************************)
(* The catalog index built at startup: SpecIndex                           *)
(***************************************************************************)

\* Longest dataset tried.
MaxProducts == 3

\* Entries of the dataset: products with a SKU (two of them with the SKU FARO
\* and different seat counts), and an entry whose product_identity or sku
\* is missing (sku "").
DatasetEntries ==
    {Product("FARO", TRUE, {"lounge"}, {"rattan"}, MaxSeats, NoNumber),
     Product("FARO", TRUE, {"lounge"}, {"rattan"}, MaxSeats - 1, NoNumber),
     Product("DINE", TRUE, {"dining"}, {"teak"}, MaxSeats - 1, SomeNumber(0)),
     Product("", TRUE, {"dining"}, {"teak"}, MaxSeats, NoNumber)}

Datasets == SeqsUpTo(DatasetEntries, MaxProducts)

\* productIndex.bySku[sku] = product: a new key is added after the others, an
\* existing key keeps its place and gets the new product.
IndexPut(index, product) ==
    IF \E i \in 1..Len(index) : index[i].sku = product.sku
    THEN [i \in 1..Len(index) |->
            IF index[i].sku = product.sku THEN product ELSE index[i]]
    ELSE Append(index, product)

RECURSIVE BuildLoop(_, _)
\* productKnowledgeCenter.forEach: a product without a SKU is skipped.
BuildLoop(index, rest) ==
    IF rest = <<>> THEN index
    ELSE IF Head(rest).sku = "" THEN BuildLoop(index, Tail(rest))
    ELSE BuildLoop(IndexPut(index, Head(rest)), Tail(rest))

RECURSIVE UpToMissingSku(_)
\* The products before the first one without a SKU.
UpToMissingSku(dataset) ==
    IF dataset = <<>> \/ Head(dataset).sku = "" THEN <<>>
    ELSE <<Head(dataset)>> \o UpToMissingSku(Tail(dataset))

\* A build that stops at the first product without a SKU.
BuildIndex_abort(dataset) == BuildLoop(<<>>, UpToMissingSku(dataset))

\* The index build at startup.
BuildIndex(dataset) == BuildLoop(<<>>, dataset)

InitIndex ==
    /\ productKnowledgeCenter \in Datasets
    /\ productIndex = BuildIndex(productKnowledgeCenter)
    /\ inventoryData = ScenarioInventory
    /\ probe = IdleProbe
    /\ SHOPIFY_ACCESS_TOKEN = TRUE
    /\ CacheIdle
    /\ ChatIdle

\* The readers of the index after startup.
NextIndex ==
    \/ \E sku \in AllSkus : Stock(sku)
    \/ \E criteria \in {NoCriteria, [NoCriteria EXCEPT !.material = "rattan"]} :
          Search(criteria)
    \/ \E sku \in AllSkus, options \in RenderOptions : Render(sku, options, NoShopifyData)

SpecIndex == InitIndex /\ [][NextIndex]_vars

\* The products of the dataset that have a SKU, in dataset order.
ProductsWithSku == SelectSeq(productKnowledgeCenter, LAMBDA p : p.sku # "")

\* The last product of the dataset with the given SKU.
LastWithSku(sku) ==
    LET s == ProductsWithSku
    IN  s[CHOOSE i \in 1..Len(s) :
            s[i].sku = sku /\ \A j \in (i + 1)..Len(s) : s[j].sku # sku]

\* C23 as stated: at startup and after every call, the index holds exactly
\* the products of the dataset that have a SKU.
C23_Original ==
    Range(productIndex) = Range(ProductsWithSku)

\* C23: at startup and after every call, the index has one entry for each
\* SKU of the dataset and no other, holding the last product of the dataset
\* with that SKU; products without a SKU are left out and the load goes on;
\* when no two products share a SKU, the index is exactly the products that
\* have a SKU, in dataset order.
C23_IndexBuild ==
    /\ {productIndex[i].sku : i \in 1..Len(productIndex)}
          = {ProductsWithSku[i].sku : i \in 1..Len(ProductsWithSku)}
    /\ \A i, j \in 1..Len(productIndex) :
          productIndex[i].sku = productIndex[j].sku => i = j
    /\ \A i \in 1..Len(productIndex) :
          /\ productIndex[i].sku # ""
          /\ productIndex[i] = LastWithSku(productIndex[i].sku)
    /\ (\A i, j \in 1..Len(ProductsWithSku) :
            ProductsWithSku[i].sku = ProductsWithSku[j].sku => i = j)
          => productIndex = ProductsWithSku

\* C23: a dataset with a product without a SKU between two products that
\* have one; both are in the index after a call read it.
C23_Witness ==
    /\ Len(productKnowledgeCenter) = 3
    /\ productKnowledgeCenter[1].sku = "FARO"
    /\ productKnowledgeCenter[2].sku = ""
    /\ productKnowledgeCenter[3].sku = "DINE"
    /\ productIndex = <<productKnowledgeCenter[1], productKnowledgeCenter[3]>>
    /\ probe.op = "search"

(***************************************************************************)
(* Offers and rendered cards                                               *)
(***************************************************************************)

\* The response carries an offer: a bundle offer or a cross-sell pitch.
ResponseHasOffer(response) ==
    ResponseHasBundleOffer(response) \/ response.crossSell # ""

\* C24 (as stated): a response that carries a bundle offer or a cross-sell
\* has at least one rendered card, and bundlesOffered and crossSellsShown
\* change only in a step that sends a response with a rendered card.
C24_NoSpontaneousOffer ==
    [][\A sid \in SessionIds :
          LET sent == lastResponse' # lastResponse /\ lastResponse'.sid = sid
              counted == \/ sessions'[sid].commercial.bundlesOffered
                                # sessions[sid].commercial.bundlesOffered
                         \/ sessions'[sid].commercial.crossSellsShown
                                # sessions[sid].commercial.crossSellsShown
          IN  ((sent /\ ResponseHasOffer(lastResponse')) \/ counted)
                 => (sent /\ Len(lastResponse'.cards) > 0)]_vars

\* C24, for the offers of assembleResponse alone: the appended bundle offer
\* and the cross-sell come with a rendered card, and the two counters change
\* only in a step that sends a response with a rendered card.
C24_AppendedOfferWithCard ==
    [][\A sid \in SessionIds :
          LET sent == lastResponse' # lastResponse /\ lastResponse'.sid = sid
              counted == \/ sessions'[sid].commercial.bundlesOffered
                                # sessions[sid].commercial.bundlesOffered
                         \/ sessions'[sid].commercial.crossSellsShown
                                # sessions[sid].commercial.crossSellsShown
          IN  ((sent /\ (lastResponse'.bundleOffer \/ lastResponse'.crossSell # ""))
                    \/ counted)
                 => (sent /\ Len(lastResponse'.cards) > 0)]_vars

(***************************************************************************)
(* Cards after a failed lookup: SpecLookup                                 *)
(***************************************************************************)

\* Turns a session takes in SpecLookup.
LookupTurns == 3

LookupContents ==
    {Content("plain", "object", "product_recommendation", SkuList(<<"FARO", "DINE">>))}

\* One request at a time: a search or a recommendation of two products whose
\* lookups fail or succeed; and renderProductCard called on its own for any
\* SKU with a lookup that returned null.
NextLookup ==
    \/ \E sid \in ChatSessionIds, message \in OfferMessages :
          /\ sessions[sid].messageCount < LookupTurns
          /\ ChatStart(1, sid, message)
    \/ ModelFails(1)
    \/ \E toolCalls \in OfferToolCalls : ModelReturnsToolCalls(1, toolCalls)
    \/ \E content \in LookupContents : ModelReturnsContent(1, content)
    \/ RenderCall(1)
    \/ \E outcome \in FetchOutcomes : ShopifyReturns(1, outcome)
    \/ AssembleRest(1)
    \/ \E sku \in AllSkus, options \in RenderOptions : Render(sku, options, NoShopifyData)

SpecLookup == InitChat /\ [][NextLookup]_vars

\* The cards of a request once the card of its current SKU is built from the
\* local data alone.
CardsFromLocalData(req) ==
    LET sku == req.aiOutput.selected_skus.list[req.idx]
    IN  IF getProductStock(sku) > 0 THEN Append(req.cards, sku) ELSE req.cards

\* C25: when the lookup for a product returns null, renderProductCard returns
\* a card exactly when getProductStock is > 0, with the local price and the
\* local stock; in a turn, the step in which the lookup fails (the cache is
\* left as it was) or is not made for want of a token adds the card of a
\* product with local stock to the cards and sends no response, and the
\* response of a turn that rendered cards has status 200.
C25_LookupFailure ==
    [][/\ (probe'.op = "render" /\ probe'.shopifyData.isNull /\ HasProduct(probe'.sku))
            => /\ probe'.card.isNull <=> getProductStock(probe'.sku) <= 0
               /\ ~probe'.card.isNull
                    => /\ probe'.card.price = ProductOf(probe'.sku).price
                       /\ probe'.card.stock = getProductStock(probe'.sku)
       /\ \A r \in ReqIds :
            /\ (reqs[r].pc = "await_shopify" /\ reqs'[r] # reqs[r]
                    /\ SHOPIFY_CACHE' = SHOPIFY_CACHE)
                 => /\ reqs'[r] = [reqs[r] EXCEPT !.pc = "render", !.idx = @ + 1,
                                                  !.cards = CardsFromLocalData(reqs[r])]
                    /\ lastResponse' = lastResponse
            /\ (/\ reqs[r].pc = "render" /\ reqs'[r].pc = "render"
                /\ reqs'[r].idx = reqs[r].idx + 1
                /\ HasProduct(reqs[r].aiOutput.selected_skus.list[reqs[r].idx])
                /\ ~IsFresh(CacheEntry(reqs[r].aiOutput.selected_skus.list[reqs[r].idx]), now))
                 => /\ reqs'[r].cards = CardsFromLocalData(reqs[r])
                    /\ lastResponse' = lastResponse
            /\ (reqs[r].pc = "render" /\ lastResponse' # lastResponse)
                 => lastResponse'.status = 200]_vars

\* C25: with a token, a recommendation was answered with both cards although
\* no lookup ever succeeded (the cache is empty), and renderProductCard gave
\* no card for the cover, which has no local stock.
C25_Witness ==
    /\ SHOPIFY_ACCESS_TOKEN
    /\ \A sku \in DOMAIN SHOPIFY_CACHE : ~SHOPIFY_CACHE[sku].has
    /\ lastResponse.status = 200
    /\ lastResponse.kind = "recommendation"
    /\ lastResponse.cards = <<"FARO", "DINE">>
    /\ probe.op = "render"
    /\ probe.sku = "COVER"
    /\ probe.shopifyData.isNull
    /\ probe.card.isNull

(***************************************************************************)
(* Turns with a search                                                     *)
(***************************************************************************)

\* C26 (as stated): the step that handles a search_products call of the
\* model writes the search result to the session's whitelist and does not end
\* the turn in an error; the turn goes on to the selection of the model, and
\* the selection a turn renders was validated against the whitelist the
\* session has in that turn.
C26_SearchTurnOrdering ==
    [][\A r \in ReqIds :
          LET sid == reqs[r].sid
          IN  /\ (/\ reqs[r].pc = "await_model"
                  /\ lastSearch'[sid] # lastSearch[sid])
                    => /\ sessions'[sid].currentWhitelist = lastSearch'[sid]
                       /\ ~(lastResponse' # lastResponse /\ lastResponse'.status = 500)
              /\ (reqs[r].pc = "await_model" /\ reqs'[r].pc = "render")
                    => reqs'[r].validatedAgainst = sessions[sid].currentWhitelist]_vars

(***************************************************************************)
(* Seat filter, ordering and truncation (SpecCatalog)                      *)
(***************************************************************************)

\* A search with a minimum seat count that at least one candidate reaches.
SomeCandidateReaches(criteria) ==
    /\ criteria.seatCount # 0
    /\ \E i \in 1..Len(SeatCandidates(criteria)) :
          SeatCandidates(criteria)[i].seats >= criteria.seatCount

\* The candidates that reach the minimum, match the name query and are in
\* stock, ordered by seat count (ties in index order).
OrderedInStock(criteria) ==
    SortBySeatsAsc(SelectSeq(SeatCandidates(criteria), LAMBDA p :
        /\ p.seats >= criteria.seatCount
        /\ (criteria.productName = "" \/ criteria.productName \in p.names)
        /\ getProductStock(p.sku) > 0))

\* C27: when a minimum seat count is given and a candidate reaches it, every
\* returned product has at least that many seats, the seat counts do not
\* decrease along the result, the result has at most maxResults entries and
\* it is the prefix of that length of the ordered in-stock candidates.
C27_SeatOrdering ==
    (probe.op = "search" /\ SomeCandidateReaches(probe.criteria)) =>
        /\ \A i \in 1..Len(probe.result) :
              probe.result[i].seats >= probe.criteria.seatCount
        /\ \A i, j \in 1..Len(probe.result) :
              i < j => probe.result[i].seats <= probe.result[j].seats
        /\ Len(probe.result) <= probe.criteria.maxResults
        /\ LET ordered == OrderedInStock(probe.criteria)
               n == IF Len(ordered) < probe.criteria.maxResults
                    THEN Len(ordered) ELSE probe.criteria.maxResults
           IN  probe.result = [i \in 1..n |-> Projection(ordered[i])]

\* C27 witness: two products reach the minimum, the smaller one comes later
\* in the index and first in the result.
C27_Witness ==
    /\ probe.op = "search"
    /\ SomeCandidateReaches(probe.criteria)
    /\ Len(probe.result) = 2
    /\ probe.result[1].sku = "DINE"
    /\ probe.result[2].sku = "FARO"
    /\ probe.result[1].seats < probe.result[2].seats

\* C27 witness of the truncation: maxResults = 1 cut the larger product off.
C27_Truncated ==
    /\ probe.op = "search"
    /\ SomeCandidateReaches(probe.criteria)
    /\ probe.criteria.maxResults = 1
    /\ Len(OrderedInStock(probe.criteria)) > 1
    /\ Len(probe.result) = 1

(***************************************************************************)
(* Capacity fallback and stock (SpecCatalog)                               *)
(***************************************************************************)

\* The candidates of the seat stage that match the name query, have a seat
\* count and are in stock.
InStockCandidates(criteria) ==
    SelectSeq(SeatCandidates(criteria), LAMBDA p :
        /\ p.seats > 0
        /\ (criteria.productName = "" \/ criteria.productName \in p.names)
        /\ getProductStock(p.sku) > 0)

\* A search whose minimum seat count is larger than the seat count of every
\* in-stock candidate, of which there is at least one.
NoInStockCandidateReaches(criteria) ==
    /\ criteria.seatCount # 0
    /\ Len(InStockCandidates(criteria)) > 0
    /\ \A i \in 1..Len(InStockCandidates(criteria)) :
          InStockCandidates(criteria)[i].seats < criteria.seatCount

\* C28 (as stated): when the minimum seat count is larger than the seat count
\* of every in-stock candidate, the result is not empty and holds in-stock
\* candidates within one seat of the largest in-stock seat count.
C28_FallbackOverInStock ==
    (probe.op = "search" /\ NoInStockCandidateReaches(probe.criteria)) =>
        /\ Len(probe.result) > 0
        /\ \A i \in 1..Len(probe.result) :
              /\ \E j \in 1..Len(InStockCandidates(probe.criteria)) :
                    InStockCandidates(probe.criteria)[j].sku = probe.result[i].sku
              /\ probe.result[i].seats
                    >= LargestSeats(InStockCandidates(probe.criteria)) - 1

(***************************************************************************)
(* Searches on empty catalogs and with criteria of any shape: SpecSearchArgs *)
(***************************************************************************)

\* The text criteria of searchProducts: each is lowercased when truthy.
TextCriteria == {"furnitureType", "material", "productName"}

\* The argument of a searchProducts call: JSON.parse of the tool arguments
\* gives null or an object; nonStrings are the text criteria the object gives
\* as a non-zero number instead of a string.
SearchArgs(isNull, criteria, nonStrings) ==
    [isNull |-> isNull, criteria |-> criteria, nonStrings |-> nonStrings]

\* searchProducts throws a TypeError: destructuring null (line 216), or
\* toLowerCase on a truthy criterion that is no string (lines 229, 246, 305).
searchProductsThrows(args) ==
    args.isNull \/ args.nonStrings # {}

\* Every combination of present and absent criteria, with a type and a
\* material that no product has and pairs of them that no product shares.
ArgCriteria ==
    [furnitureType : {"", "dining", "lounge"},
     material : {"", "rattan", "teak", "aluminium"},
     seatCount : {0, MaxSeats - 1, MaxSeats + 1},
     productName : {"", "faro"},
     maxResults : {DefaultMaxResults}]

SearchArgsSet ==
    {SearchArgs(FALSE, c, {}) : c \in ArgCriteria}
        \cup {SearchArgs(TRUE, NoCriteria, {})}
        \cup {SearchArgs(FALSE, NoCriteria, {t}) : t \in TextCriteria}

\* The catalogs: the scenario's catalog and every selection of its products
\* in index order, the empty catalog among them.
ArgCatalogs ==
    {SelectSeq(ScenarioCatalog, LAMBDA p : p.sku \in keep) : keep \in SUBSET CatalogSkus}

ArgInventories == {ScenarioInventory, [s \in AllSkus |-> NoNumber]}

InitSearchArgs ==
    /\ productIndex \in ArgCatalogs
    /\ productKnowledgeCenter = productIndex
    /\ inventoryData \in ArgInventories
    /\ probe = IdleProbe
    /\ SHOPIFY_ACCESS_TOKEN = TRUE
    /\ CacheIdle
    /\ ChatIdle

\* A call of searchProducts(args): it throws or returns its result.
SearchCall(args) ==
    /\ probe.op = "none"
    /\ probe' = [IdleProbe EXCEPT
                    !.op = "search_call",
                    !.argsNull = args.isNull,
                    !.criteria = args.criteria,
                    !.nonStrings = args.nonStrings,
                    !.threw = searchProductsThrows(args),
                    !.result = IF searchProductsThrows(args) THEN <<>>
                               ELSE searchProducts(args.criteria)]
    /\ UNCHANGED <<catalogVars, cacheVars, chatVars>>

NextSearchArgs ==
    \/ \E args \in SearchArgsSet : SearchCall(args)
    \/ \E sku \in AllSkus : Stock(sku)

SpecSearchArgs == InitSearchArgs /\ [][NextSearchArgs]_vars

\* No product of the index meets the given type, material and name together.
NoOverlap(criteria) ==
    ~\E i \in 1..Len(productIndex) :
        LET p == productIndex[i]
        IN  /\ (criteria.furnitureType = "" \/ criteria.furnitureType \notin KnownTypes
                    \/ criteria.furnitureType \in p.types)
            /\ (criteria.material = "" \/ criteria.material \in p.materials)
            /\ (criteria.productName = "" \/ criteria.productName \in p.names)

\* C29: called with an object whose criteria are each absent or of their
\* type, searchProducts does not throw, and it returns the empty list on the
\* empty catalog and when no product meets the given filters together.
C29_SearchTotal ==
    (probe.op = "search_call" /\ ~probe.argsNull /\ probe.nonStrings = {}) =>
        /\ ~probe.threw
        /\ productIndex = <<>> => probe.result = <<>>
        /\ NoOverlap(probe.criteria) => probe.result = <<>>

\* C29 witness: on the full catalog, a type and a material that each match a
\* product in stock but no product together, with a seat count: empty result.
C29_Witness ==
    /\ probe.op = "search_call"
    /\ ~probe.threw
    /\ productIndex = ScenarioCatalog
    /\ inventoryData = ScenarioInventory
    /\ probe.criteria.furnitureType = "lounge"
    /\ probe.criteria.material = "teak"
    /\ probe.criteria.seatCount = MaxSeats - 1
    /\ probe.result = <<>>

\* C29 witness: the empty catalog searched with every criterion present.
C29_EmptyCatalog ==
    /\ probe.op = "search_call"
    /\ productIndex = <<>>
    /\ probe.criteria.furnitureType = "dining"
    /\ probe.criteria.material = "teak"
    /\ probe.criteria.seatCount = MaxSeats + 1
    /\ probe.criteria.productName = "faro"
    /\ probe.result = <<>>
    /\ ~probe.threw

(***************************************************************************)
(* Upsell eligibility: SpecUpsell                                          *)
(***************************************************************************)

\* COMMERCE_RULES.upsell.maxPerSession
maxPerSession == 2

\* COMMERCE_RULES.upsell.maxPriceIncrease (0.5), in percent.
maxPriceIncreasePercent == 50

Eligible == [eligible |-> TRUE, reason |-> ""]
NotEligible(reason) == [eligible |-> FALSE, reason |-> reason]

\* increase > rules.maxPriceIncrease, for prices in whole pounds and a
\* positive current price: (target - current) / current > 0.5.
PriceJumpTooHigh(targetPrice, currentPrice) ==
    100 * (targetPrice - currentPrice) > maxPriceIncreasePercent * currentPrice

\* An upsell check that also rejects an increase of exactly the limit.
checkUpsellEligibility_strict(session, targetPrice, currentPrice) ==
    LET commercial == session.commercial
    IN  IF session.messageCount <= 2 THEN NotEligible("too_early")
        ELSE IF ~commercial.positiveSignalReceived THEN NotEligible("no_positive_signal")
        ELSE IF commercial.upsellsOffered >= maxPerSession THEN NotEligible("max_reached")
        ELSE IF commercial.sentiment = "price_concerned" THEN NotEligible("price_sensitive")
        ELSE IF /\ currentPrice # 0 /\ targetPrice # 0
                /\ 100 * (targetPrice - currentPrice)
                       >= maxPriceIncreasePercent * currentPrice
             THEN NotEligible("price_jump_too_high")
        ELSE IF commercial.upsellDeclined THEN NotEligible("customer_declined")
        ELSE Eligible

\* checkUpsellEligibility(session, targetPrice, currentPrice): the six rules
\* in the order of the code; a price of 0 stands for a price that is 0 or not
\* given (both falsy).
checkUpsellEligibility(session, targetPrice, currentPrice) ==
    LET commercial == session.commercial
    IN  IF session.messageCount <= 2 THEN NotEligible("too_early")
        ELSE IF ~commercial.positiveSignalReceived THEN NotEligible("no_positive_signal")
        ELSE IF commercial.upsellsOffered >= maxPerSession THEN NotEligible("max_reached")
        ELSE IF commercial.sentiment = "price_concerned" THEN NotEligible("price_sensitive")
        ELSE IF /\ currentPrice # 0 /\ targetPrice # 0
                /\ PriceJumpTooHigh(targetPrice, currentPrice)
             THEN NotEligible("price_jump_too_high")
        ELSE IF commercial.upsellDeclined THEN NotEligible("customer_declined")
        ELSE Eligible

\* Largest messageCount of the sessions checked.
MaxUpsellMessages == 4

\* Prices: none, a current price, and targets below, at and above +50%.
UpsellPrices == {0, 8, 10, 15, 16}

\* The sessions checked: every combination of the fields the rules read.
UpsellSessions ==
    {[NewSession EXCEPT !.messageCount = m,
                        !.commercial.positiveSignalReceived = f[1],
                        !.commercial.upsellDeclined = f[2],
                        !.commercial.upsellsOffered = n,
                        !.commercial.sentiment = s] :
        m \in 0..MaxUpsellMessages, f \in BOOLEAN \X BOOLEAN,
        n \in 0..(maxPerSession + 1), s \in {"neutral", "positive", "price_concerned"}}

\* A call of checkUpsellEligibility.
UpsellCheck(session, targetPrice, currentPrice) ==
    /\ probe.op = "none"
    /\ probe' = [IdleProbe EXCEPT
                    !.op = "upsell", !.session = session,
                    !.targetPrice = targetPrice, !.currentPrice = currentPrice,
                    !.eligibility = checkUpsellEligibility(session, targetPrice, currentPrice)]
    /\ UNCHANGED <<catalogVars, cacheVars, chatVars>>

NextUpsell ==
    \E session \in UpsellSessions, targetPrice \in UpsellPrices,
       currentPrice \in {0, 10} :
          UpsellCheck(session, targetPrice, currentPrice)

SpecUpsell == InitChat /\ [][NextUpsell]_vars

\* The rules of the upsell as the claim lists them: whether each one passes
\* for the call the probe recorded, and the reason when it fails.
UpsellRules ==
    LET s == probe.session
        bothGiven == probe.targetPrice # 0 /\ probe.currentPrice # 0
    IN  << [ok |-> s.messageCount > 2, reason |-> "too_early"],
           [ok |-> s.commercial.positiveSignalReceived, reason |-> "no_positive_signal"],
           [ok |-> s.commercial.upsellsOffered < 2, reason |-> "max_reached"],
           [ok |-> s.commercial.sentiment # "price_concerned", reason |-> "price_sensitive"],
           [ok |-> bothGiven =>
                      2 * (probe.targetPrice - probe.currentPrice) <= probe.currentPrice,
            reason |-> "price_jump_too_high"],
           [ok |-> ~s.commercial.upsellDeclined, reason |-> "customer_declined"] >>

\* C30: checkUpsellEligibility returns eligible exactly when all six rules
\* pass, and otherwise not eligible with the reason of the first rule that
\* fails.
C30_UpsellEligibility ==
    probe.op = "upsell" =>
        /\ probe.eligibility.eligible <=> \A i \in 1..6 : UpsellRules[i].ok
        /\ \A i \in 1..6 :
              (~UpsellRules[i].ok /\ \A j \in 1..(i - 1) : UpsellRules[j].ok)
                 => probe.eligibility = [eligible |-> FALSE, reason |-> UpsellRules[i].reason]

\* C30 witness: an increase of exactly 50% passes the price rule and the call
\* is rejected by the last rule, the earlier decline.
C30_Witness ==
    /\ probe.op = "upsell"
    /\ probe.currentPrice = 10
    /\ probe.targetPrice = 15
    /\ probe.session.commercial.upsellDeclined
    /\ probe.eligibility = [eligible |-> FALSE, reason |-> "customer_declined"]

\* C30 witness: an eligible call with both prices given.
C30_EligibleCall ==
    /\ probe.op = "upsell"
    /\ probe.currentPrice = 10
    /\ probe.targetPrice = 15
    /\ probe.eligibility.eligible

(***************************************************************************)
(* Eligibility checks on the sessions of a conversation: SpecEligibility   *)
(***************************************************************************)

\* Turns a session takes in SpecEligibility.
EligibilityTurns == 4

EligibilityMessages == {"hello", "i love it", "no thanks"}

\* An eligibility check that counts the offer it allows.
SessionAfterEligibility_counting(session) ==
    [session EXCEPT !.commercial.bundlesOffered = @ + 1]

\* The session after checkBundleEligibility(session) and
\* checkUpsellEligibility(session, ...) returned: both functions only read
\* session.messageCount and session.commercial and assign nothing.
SessionAfterEligibility(session) == session

\* Both eligibility functions called on the session as it is between two
\* steps of the handler; calls counts the consecutive calls with the same
\* arguments on the same session state (up to 2).
EligibilityCall(sid, targetPrice, currentPrice) ==
    /\ running = NoReq
    /\ sessions[sid].has
    /\ probe' = [IdleProbe EXCEPT
          !.op = "eligibility", !.sid = sid, !.session = sessions[sid],
          !.targetPrice = targetPrice, !.currentPrice = currentPrice,
          !.bundleEligibility = checkBundleEligibility(sessions[sid]),
          !.eligibility = checkUpsellEligibility(sessions[sid], targetPrice, currentPrice),
          !.calls = IF /\ probe.op = "eligibility" /\ probe.sid = sid
                       /\ probe.session = sessions[sid]
                       /\ probe.targetPrice = targetPrice
                       /\ probe.currentPrice = currentPrice
                    THEN 2 ELSE 1]
    /\ sessions' = [sessions EXCEPT ![sid] = SessionAfterEligibility(@)]
    /\ UNCHANGED <<reqs, running, lastResponse, lastRenderCall, lastSearch, sessionsV13,
                   catalogVars, cacheVars>>

\* One request at a time: greetings, praise and declines, searches and
\* recommendations of the product with a bundle; the eligibility functions
\* are called on every session state in between.
NextEligibility ==
    \/ \E sid \in ChatSessionIds, message \in EligibilityMessages :
          /\ sessions[sid].messageCount < EligibilityTurns
          /\ ChatStart(1, sid, message)
    \/ ModelFails(1)
    \/ \E toolCalls \in OfferToolCalls : ModelReturnsToolCalls(1, toolCalls)
    \/ \E content \in OfferContents : ModelReturnsContent(1, content)
    \/ RenderCall(1)
    \/ \E outcome \in OfferFetchOutcomes : ShopifyReturns(1, outcome)
    \/ AssembleRest(1)
    \/ \E sid \in ChatSessionIds, currentPrice \in {0, 10} :
          EligibilityCall(sid, 15, currentPrice)

SpecEligibility == InitChat /\ [][NextEligibility]_vars

MaxFallbackWhitelist == 4

\* Model contents from which no JSON value can be taken: text without JSON,
\* a missing content, and the JSON null, plain or in a code block.
UnparsableContents ==
    {Content("text", "null", "", NoSkus),
     Content("absent", "null", "", NoSkus),
     Content("plain", "null", "", NoSkus),
     Content("code_block", "null", "", NoSkus)}

\* Whitelists of up to MaxFallbackWhitelist SKUs: the prefixes of two
\* alternating sequences.
FallbackWhitelists ==
    {[i \in 1..k |-> IF i % 2 = first THEN "DINE" ELSE "FARO"] :
        k \in 0..MaxFallbackWhitelist, first \in {0, 1}}

\* The sessions checked: every combination of context fields and whitelists
\* of up to MaxFallbackWhitelist SKUs, in sessions that differ in their other
\* fields as well.
FallbackSessions ==
    {[NewSession EXCEPT !.messageCount = m,
                        !.commercial.positiveSignalReceived = (m = 2),
                        !.context = [furnitureType |-> t, seatCount |-> n, material |-> mat],
                        !.currentWhitelist = w] :
        m \in {1, 2}, t \in {"", "lounge"}, mat \in {"", "rattan"},
        n \in {NoNumber, SomeNumber(0), SomeNumber(4)},
        w \in FallbackWhitelists}

\* The layered parse of a model content for a session.
FallbackCall(content, session) ==
    /\ probe' = [IdleProbe EXCEPT !.op = "fallback", !.content = content,
                                  !.session = session,
                                  !.fallback = ParseContent(content, session)]
    /\ UNCHANGED <<catalogVars, cacheVars, chatVars>>

NextFallback ==
    \E content \in UnparsableContents, session \in FallbackSessions :
        FallbackCall(content, session)

SpecFallback == InitChat /\ [][NextFallback]_vars

\* Some context field is set (to a truthy value: a seat count of 0 counts
\* as not set).
ContextIsSet(ctx) ==
    ctx.material # "" \/ ctx.furnitureType # "" \/ (ctx.seatCount.has /\ ctx.seatCount.n # 0)

\* The fallback the table gives for a context and a whitelist.
FallbackTable(ctx, whitelist) ==
    IF Len(whitelist) > 0 /\ ContextIsSet(ctx)
    THEN [intent |-> "product_recommendation",
          selected_skus |-> SkuList([i \in 1..(IF Len(whitelist) < 3 THEN Len(whitelist) ELSE 3)
                                        |-> whitelist[i]])]
    ELSE IF ContextIsSet(ctx)
    THEN [intent |-> "clarification", selected_skus |-> NoSkus]
    ELSE [intent |-> "greeting", selected_skus |-> NoSkus]

\* C32: for a content without JSON the parse ends with the fallback of the
\* table for the session's context and whitelist, and two calls for sessions
\* with equal context and whitelist end with the same object.
C32_FallbackTable ==
    [][probe'.op = "fallback" =>
          /\ probe'.fallback = FallbackTable(probe'.session.context,
                                             probe'.session.currentWhitelist)
          /\ (/\ probe.op = "fallback"
              /\ probe.session.context = probe'.session.context
              /\ probe.session.currentWhitelist = probe'.session.currentWhitelist)
                => probe'.fallback = probe.fallback]_vars

\* C32 witness: a whitelist of four SKUs and a seat count as the only
\* context: the fallback recommends the first three.
C32_Witness ==
    /\ probe.op = "fallback"
    /\ probe.session.currentWhitelist = <<"DINE", "FARO", "DINE", "FARO">>
    /\ probe.session.context = [furnitureType |-> "", seatCount |-> SomeNumber(4), material |-> ""]
    /\ probe.fallback = AiOutput("product_recommendation", SkuList(<<"DINE", "FARO", "DINE">>))

(***************************************************************************)
(* Declines and the latching flags (SpecEligibility)                       *)
(***************************************************************************)

\* The step in which the handler takes up a message of the session that
\* declines, up to the call of the model.
DeclineTaken(sid) ==
    \E r \in ReqIds :
        /\ reqs[r].pc = "idle"
        /\ reqs'[r].pc = "await_model"
        /\ reqs'[r].sid = sid
        /\ "decline" \in Words(reqs'[r].message)

\* C33: bundleDeclined becomes true only in the step that takes up a
\* declining message while lastOfferType is 'bundle', upsellDeclined only
\* while it is 'upsell'; that step sets exactly the flag of the last offer
\* type and leaves bundlesOffered and the whitelist as they were, so with no
\* offer made yet it changes none of the four.
C33_DeclineScope ==
    [][\A sid \in ChatSessionIds :
          LET c == sessions[sid].commercial
              d == sessions'[sid].commercial
          IN  /\ (~c.bundleDeclined /\ d.bundleDeclined)
                    => (DeclineTaken(sid) /\ c.lastOfferType = "bundle")
              /\ (~c.upsellDeclined /\ d.upsellDeclined)
                    => (DeclineTaken(sid) /\ c.lastOfferType = "upsell")
              /\ DeclineTaken(sid) =>
                    /\ d.bundleDeclined = (c.bundleDeclined \/ c.lastOfferType = "bundle")
                    /\ d.upsellDeclined = (c.upsellDeclined \/ c.lastOfferType = "upsell")
                    /\ d.bundlesOffered = c.bundlesOffered
                    /\ d.lastOfferType = c.lastOfferType
                    /\ sessions'[sid].currentWhitelist = sessions[sid].currentWhitelist]_vars

\* C33 witness: a decline was taken up in a session that has a whitelist and
\* has shown a product but has made no offer: no flag is set.
C33_Witness ==
    /\ reqs[1].pc = "await_model"
    /\ reqs[1].message = "no thanks"
    /\ sessions["s1"].commercial.lastOfferType = ""
    /\ Len(sessions["s1"].commercial.productsShown) > 0
    /\ Len(sessions["s1"].currentWhitelist) > 0
    /\ ~sessions["s1"].commercial.bundleDeclined
    /\ ~sessions["s1"].commercial.upsellDeclined

\* C33, the other case: a decline after a bundle offer set bundleDeclined
\* and not upsellDeclined.
C33_BundleDeclined ==
    /\ reqs[1].pc = "await_model"
    /\ reqs[1].message = "no thanks"
    /\ sessions["s1"].commercial.lastOfferType = "bundle"
    /\ sessions["s1"].commercial.bundleDeclined
    /\ ~sessions["s1"].commercial.upsellDeclined

(***************************************************************************)
(* Latching flags: SpecLatch                                               *)
(***************************************************************************)

\* Turns a session takes in SpecLatch.
LatchTurns == 4

\* Messages that set each flag, and messages that set none of them.
LatchMessages ==
    {"hello", "i love it", "that's the one", "is there a bundle", "no thanks",
     "too expensive"}

\* Two request slots of one session: any message, then a search or a
\* recommendation of the product that has a bundle.
NextLatch ==
    \/ \E r \in ReqIds, sid \in ChatSessionIds, message \in LatchMessages :
          /\ sessions[sid].messageCount < LatchTurns
          /\ ChatStart(r, sid, message)
    \/ \E r \in ReqIds : ModelFails(r)
    \/ \E r \in ReqIds, toolCalls \in OfferToolCalls : ModelReturnsToolCalls(r, toolCalls)
    \/ \E r \in ReqIds, content \in OfferContents : ModelReturnsContent(r, content)
    \/ \E r \in ReqIds : RenderCall(r)
    \/ \E r \in ReqIds, outcome \in OfferFetchOutcomes : ShopifyReturns(r, outcome)
    \/ \E r \in ReqIds : AssembleRest(r)

SpecLatch == InitChat /\ [][NextLatch]_vars

\* C34: each of the five flags, once true in a session, is true after every
\* later step, and bundlesOffered does not decrease.
C34_FlagsLatch ==
    [][\A sid \in ChatSessionIds :
          LET c == sessions[sid].commercial
              d == sessions'[sid].commercial
          IN  /\ c.bundleDeclined => d.bundleDeclined
              /\ c.upsellDeclined => d.upsellDeclined
              /\ c.positiveSignalReceived => d.positiveSignalReceived
              /\ c.strongPositiveReceived => d.strongPositiveReceived
              /\ c.bundleInterestShown => d.bundleInterestShown
              /\ d.bundlesOffered >= c.bundlesOffered
              /\ sessions[sid].has => sessions'[sid].has]_vars

\* C34 witness: the three signal flags are set and stay set while the latest
\* message, a price concern, overwrites the sentiment.
C34_Witness ==
    LET c == sessions["s1"].commercial
    IN  /\ c.positiveSignalReceived
        /\ c.strongPositiveReceived
        /\ c.bundleInterestShown
        /\ c.sentiment = "price_concerned"
        /\ \E r \in ReqIds : reqs[r].pc = "await_model" /\ reqs[r].message = "too expensive"

(***************************************************************************)
(* The first showing of a product (SpecLatch)                              *)
(***************************************************************************)

\* The step in which request r sends a response with the appended bundle
\* offer or counts an offer.
OfferAppendedBy(r) ==
    /\ reqs[r].pc = "render"
    /\ reqs'[r].pc = "idle"
    /\ \/ (lastResponse' # lastResponse /\ lastResponse'.bundleOffer)
       \/ sessions'[reqs[r].sid].commercial.bundlesOffered
              # sessions[reqs[r].sid].commercial.bundlesOffered

CrossSellTurns == 5

CrossSellMessages == {"hello", "i love it", "no thanks"}

\* Recommendations of the product with a bundle and of the product with an
\* assembly service.
CrossSellContents ==
    {Content("plain", "object", "product_recommendation", SkuList(<<sku>>)) :
        sku \in {"FARO", "DINE"}}

\* What the lookup of a card returns: a failure (the card is built from the
\* local data).
CrossSellFetchOutcomes == {o \in FetchOutcomes : o.kind = "not_ok"}

\* Two request slots of one session; a request that overlaps another one
\* carries a greeting.
NextCrossSell ==
    \/ \E r \in ReqIds, sid \in ChatSessionIds, message \in CrossSellMessages :
          /\ sessions[sid].messageCount < CrossSellTurns
          /\ (r # 1 => message = "hello")
          /\ ChatStart(r, sid, message)
    \/ \E r \in ReqIds : ModelFails(r)
    \/ \E r \in ReqIds, toolCalls \in OfferToolCalls : ModelReturnsToolCalls(r, toolCalls)
    \/ \E r \in ReqIds, content \in CrossSellContents : ModelReturnsContent(r, content)
    \/ \E r \in ReqIds : RenderCall(r)
    \/ \E r \in ReqIds, outcome \in CrossSellFetchOutcomes : ShopifyReturns(r, outcome)
    \/ \E r \in ReqIds : AssembleRest(r)

SpecCrossSell == InitChat /\ [][NextCrossSell]_vars

\* C36: no response carries both the appended bundle offer and a cross-sell;
\* a response with a cross-sell is sent only for a session that has received
\* a positive signal; crossSellsShown grows by the suggestion of such a
\* response and in no other step, and never holds more than 2 entries.
C36_OffersExclusive ==
    [][/\ (lastResponse' # lastResponse /\ lastResponse'.crossSell # "")
            => /\ ~lastResponse'.bundleOffer
               /\ sessions[lastResponse'.sid].commercial.positiveSignalReceived
       /\ \A sid \in ChatSessionIds :
            LET old == sessions[sid].commercial.crossSellsShown
                new == sessions'[sid].commercial.crossSellsShown
            IN  /\ Len(new) <= 2
                /\ new # old
                     => /\ lastResponse' # lastResponse
                        /\ lastResponse'.sid = sid
                        /\ lastResponse'.crossSell # ""
                        /\ new = Append(old, lastResponse'.crossSell)]_vars

\* C36 witness: two cross-sells were shown, and the latest response, to a
\* recommendation that is due neither a bundle offer nor a third cross-sell,
\* carries none.
C36_Witness ==
    /\ Len(sessions["s1"].commercial.crossSellsShown) = 2
    /\ sessions["s1"].commercial.bundleDeclined
    /\ lastResponse.kind = "recommendation"
    /\ lastResponse.cards = <<"DINE">>
    /\ lastResponse.crossSell = ""
    /\ ~lastResponse.bundleOffer

(***************************************************************************)
(* What productsShown holds: SpecShown                                     *)
(***************************************************************************)

\* Turns a session takes in SpecShown.
ShownTurns == 3

ShownMessages == {"hello", "how do i order"}

\* Searches for everything and for the dining sets: the whitelist changes
\* between turns and while a request awaits.
ShownToolCalls ==
    {<<ToolCall("search_products", TRUE, NoCriteria)>>,
     <<ToolCall("search_products", TRUE, [NoCriteria EXCEPT !.furnitureType = "dining"])>>}

\* Recommendations, one of them with a SKU that no product has.
ShownContents ==
    {Content("plain", "object", "product_recommendation", SkuList(<<"GHOST", "DINE">>)),
     Content("plain", "object", "product_recommendation", SkuList(<<"FARO">>))}

NextShown ==
    \/ \E r \in ReqIds, sid \in ChatSessionIds, message \in ShownMessages :
          /\ sessions[sid].messageCount < ShownTurns
          /\ ChatStart(r, sid, message)
    \/ \E r \in ReqIds : ModelFails(r)
    \/ \E r \in ReqIds, toolCalls \in ShownToolCalls : ModelReturnsToolCalls(r, toolCalls)
    \/ \E r \in ReqIds, content \in ShownContents : ModelReturnsContent(r, content)
    \/ \E r \in ReqIds : RenderCall(r)
    \/ \E r \in ReqIds, outcome \in FetchOutcomes : ShopifyReturns(r, outcome)
    \/ \E r \in ReqIds : AssembleRest(r)

SpecShown == InitChat /\ [][NextShown]_vars

\* C37: a SKU enters productsShown only in the step that ends a turn whose
\* validation approved it against the whitelist the session had then;
\* productsShown never loses a SKU; and the product a closing response names
\* is one of productsShown and a product of the catalog.
C37_ShownWereApproved ==
    [][\A sid \in ChatSessionIds :
          LET old == sessions[sid].commercial.productsShown
              new == sessions'[sid].commercial.productsShown
          IN  /\ Range(old) \subseteq Range(new)
              /\ \A sku \in Range(new) \ Range(old) :
                    \E r \in ReqIds :
                       /\ reqs[r].sid = sid
                       /\ reqs[r].pc = "render"
                       /\ reqs'[r].pc = "idle"
                       /\ sku \in Range(reqs[r].aiOutput.selected_skus.list)
                       /\ sku \in Range(reqs[r].validatedAgainst)
              /\ (lastResponse' # lastResponse /\ lastResponse'.sid = sid
                        /\ lastResponse'.kind = "closing")
                    => /\ ClosingProduct(new) \in Range(old)
                       /\ HasProduct(ClosingProduct(new))]_vars

\* C37 witness: the closing response names the dining set, which entered
\* productsShown in the turn whose model output also named a SKU that no
\* product has.
C37_Witness ==
    /\ lastResponse.kind = "closing"
    /\ lastResponse.closing = "product_checkout"
    /\ sessions["s1"].commercial.productsShown = <<"DINE", "DINE">>

(***************************************************************************)
(* The pairs of conversationHistory: SpecPairs                             *)
(***************************************************************************)

\* Turns a session takes in SpecPairs: one search, then seven answered turns,
\* which is one pair more than the cap keeps.
PairsTurns == 8

PairsMessages == {"hello", "how do i order"}

PairsToolCalls == {<<ToolCall("search_products", TRUE, NoCriteria)>>}

PairsContents ==
    {Content("plain", "object", "product_recommendation", SkuList(<<"FARO">>))}

\* The card fetch of these turns fails: the cards come from the local data.
PairsFetchOutcomes == {o \in FetchOutcomes : o.kind = "not_ok"}

NextPairs ==
    \/ \E r \in ReqIds, sid \in ChatSessionIds, message \in PairsMessages :
          /\ sessions[sid].messageCount < PairsTurns
          /\ (r # 1 => message = "hello")
          /\ ChatStart(r, sid, message)
    \/ \E r \in ReqIds, toolCalls \in PairsToolCalls : ModelReturnsToolCalls(r, toolCalls)
    \/ \E r \in ReqIds, content \in PairsContents : ModelReturnsContent(r, content)
    \/ \E r \in ReqIds : RenderCall(r)
    \/ \E r \in ReqIds, outcome \in PairsFetchOutcomes : ShopifyReturns(r, outcome)
    \/ \E r \in ReqIds : AssembleRest(r)

SpecPairs == InitChat /\ [][NextPairs]_vars

\* The entries 2i-1 and 2i of a history are the user entry and the assistant
\* entry of one turn.
IsPair(h, i) ==
    /\ h[2 * i - 1].role = "user"
    /\ h[2 * i].role = "assistant"
    /\ h[2 * i].turn = h[2 * i - 1].turn

\* C38: with requests of one session overlapping, conversationHistory always
\* has even length and is a sequence of pairs: a user entry followed by the
\* assistant entry of the same turn.
C38_HistoryPairs ==
    \A sid \in ChatSessionIds :
        LET h == sessions[sid].conversationHistory
        IN  /\ Len(h) % 2 = 0
            /\ \A i \in 1..(Len(h) \div 2) : IsPair(h, i)

\* C38 witness: a history that was cut to the cap (its second pair is not of
\* the turn after the first pair's) and in which a later turn's pair stands
\* before an earlier turn's, as the later request finished first.
C38_Witness ==
    LET h == sessions["s1"].conversationHistory
    IN  /\ Len(h) = HistoryCap
        /\ h[3].turn > h[1].turn + 2
        /\ \E i \in 1..5 : h[2 * i - 1].turn > h[2 * i + 1].turn

(***************************************************************************)
(* What a failed turn leaves behind: SpecFailure                           *)
(***************************************************************************)

\* Turns a session takes in SpecFailure.
FailureTurns == 4

\* Recommendations, one of them with selected_skus that cannot be iterated
\* (the validation throws a TypeError).
FailureContents ==
    {Content("plain", "object", "product_recommendation", SkuList(<<"FARO">>)),
     Content("plain", "object", "product_recommendation", NotIterable)}

NextFailure ==
    \/ \E r \in ReqIds, sid \in ChatSessionIds, message \in ShownMessages :
          /\ sessions[sid].messageCount < FailureTurns
          /\ ChatStart(r, sid, message)
    \/ \E r \in ReqIds : ModelFails(r)
    \/ \E r \in ReqIds, toolCalls \in ShownToolCalls : ModelReturnsToolCalls(r, toolCalls)
    \/ \E r \in ReqIds, content \in FailureContents : ModelReturnsContent(r, content)
    \/ \E r \in ReqIds : RenderCall(r)
    \/ \E r \in ReqIds, outcome \in FetchOutcomes : ShopifyReturns(r, outcome)
    \/ \E r \in ReqIds : AssembleRest(r)

SpecFailure == InitChat /\ [][NextFailure]_vars

\* The step sends the response with the given status to a request of sid.
Answers(sid, status) ==
    /\ lastResponse' # lastResponse
    /\ lastResponse'.sid = sid
    /\ lastResponse'.status = status

\* C39: the step that ends a turn in the catch (status 500) leaves the
\* session's conversationHistory and productsShown as they were, and so does
\* every earlier step of a turn: the only steps that change either of them
\* are the ones that send a response with status 200.
C39_FailedTurnFrame ==
    [][\A sid \in ChatSessionIds :
          LET Same == /\ sessions'[sid].conversationHistory
                           = sessions[sid].conversationHistory
                      /\ sessions'[sid].commercial.productsShown
                           = sessions[sid].commercial.productsShown
          IN  /\ Answers(sid, 500) => Same
              /\ ~Same => Answers(sid, 200)]_vars

\* C39 witness: after a recommendation was shown, a turn whose tool loop
\* replaced the whitelist has ended in the catch; the history and
\* productsShown are those of the one answered turn.
C39_Witness ==
    /\ lastResponse.status = 500
    /\ lastResponse.cause # "model_call"
    /\ lastResponse.turn = 3
    /\ sessions["s1"].commercial.productsShown = <<"FARO", "FARO">>
    /\ Len(sessions["s1"].conversationHistory) = 2
    /\ sessions["s1"].currentWhitelist # <<>>
    /\ "FARO" \notin Range(sessions["s1"].currentWhitelist)

(***************************************************************************)
(* Two sessions side by side: SpecIsolation                                *)
(***************************************************************************)

\* Turns each session takes in SpecIsolation.
IsolationTurns == 3

\* The second session's customer only greets, and takes one turn less; its
\* model answers vary.
IsolationMessages(sid) == IF sid = "s1" THEN ShownMessages ELSE {"hello"}

IsolationTurnsOf(sid) == IF sid = "s1" THEN IsolationTurns ELSE IsolationTurns - 1

IsolationFetchOutcomes == {o \in FetchOutcomes : o.kind = "not_ok"}

\* Requests of the two sessions interleave at the awaits; a session has one
\* request in flight at a time.
NextIsolation ==
    \/ \E r \in ReqIds, sid \in SessionIds :
          \E message \in IsolationMessages(sid) :
              /\ sessions[sid].messageCount < IsolationTurnsOf(sid)
              /\ \A q \in ReqIds : reqs[q].pc # "idle" => reqs[q].sid # sid
              /\ ChatStart(r, sid, message)
    \/ \E r \in ReqIds : ModelFails(r)
    \/ \E r \in ReqIds, toolCalls \in ShownToolCalls : ModelReturnsToolCalls(r, toolCalls)
    \/ \E r \in ReqIds, content \in ShownContents : ModelReturnsContent(r, content)
    \/ \E r \in ReqIds : RenderCall(r)
    \/ \E r \in ReqIds, outcome \in IsolationFetchOutcomes : ShopifyReturns(r, outcome)
    \/ \E r \in ReqIds : AssembleRest(r)

SpecIsolation == InitChat /\ [][NextIsolation]_vars

\* The sessions whose request takes the step: the session of a request that
\* starts, goes on or ends, and the session a response is addressed to.
ActingSessions ==
    {reqs[r].sid : r \in {q \in ReqIds : reqs[q].pc # "idle" /\ reqs'[q] # reqs[q]}}
        \cup {reqs'[r].sid : r \in {q \in ReqIds : reqs[q].pc = "idle" /\ reqs'[q].pc # "idle"}}
        \cup (IF lastResponse' # lastResponse THEN {lastResponse'.sid} ELSE {})

\* C40: a step of a request changes no session but the request's own
\* (whitelist, context, history, commercial state and all), whatever the
\* other session's requests are doing; and the cards and the closing product
\* of a response come from the addressed session's own whitelist and
\* productsShown.
C40_SessionIsolation ==
    [][/\ \A sid \in SessionIds :
             sessions'[sid] # sessions[sid] => ActingSessions = {sid}
       /\ \A r \in ReqIds :
             (reqs[r].pc = "render" /\ reqs'[r].pc = "idle")
                => /\ lastResponse'.sid = reqs[r].sid
                   /\ Range(lastResponse'.cards) \subseteq Range(reqs[r].validatedAgainst)
       /\ \A r \in ReqIds :
             (reqs[r].pc = "await_model" /\ reqs'[r].pc = "render")
                => reqs'[r].validatedAgainst = sessions[reqs[r].sid].currentWhitelist
       /\ (lastResponse' # lastResponse /\ lastResponse'.kind = "closing")
             => ClosingProduct(sessions'[lastResponse'.sid].commercial.productsShown)
                   \in Range(sessions[lastResponse'.sid].commercial.productsShown)]_vars

\* C40 witness: the first session's customer was shown the lounge set and is
\* in the closing flow while the second session, with a whitelist of the
\* dining sets only, was shown the dining set.
C40_Witness ==
    /\ lastResponse.sid = "s1"
    /\ lastResponse.kind = "closing"
    /\ sessions["s1"].commercial.productsShown = <<"FARO", "FARO">>
    /\ sessions["s2"].commercial.productsShown = <<"DINE", "DINE">>
    /\ "FARO" \in Range(sessions["s1"].currentWhitelist)
    /\ "FARO" \notin Range(sessions["s2"].currentWhitelist)
    /\ Len(sessions["s2"].conversationHistory) = 2

====
